---- MODULE Spec2Model ----
(***************************************************************************)
(* Bibliotheca backend: the search rate limiter, the in-process response   *)
(* cache with its hourly sweep, the search / book-detail proxy handlers    *)
(* and the rate-limit status endpoint (src/server.js, src/unnamed/part_002)*)
(* together with the accounts, the token guard, the tracking handlers, the *)
(* list of tracked items and the calendar query of src/unnamed/part_002    *)
(* over the schema of src/database/migrate.js, and the migration run at    *)
(* start-up.                                                               *)
(*                                                                         *)
(* Time is Date.now() in milliseconds.  A handler runs atomically between  *)
(* its suspension points: the limiter middleware, the query check and the  *)
(* cache lookup form one step (the awaits in between resolve without       *)
(* yielding to another request), the upstream fetch is a suspension, and   *)
(* the code after it (store in the cache, respond) is a second step.       *)
(*                                                                         *)
(* A handler that talks to the database suspends at every `await db.query`:*)
(* each SQL statement is one atomic step of the database, and other        *)
(* requests run between two statements of the same handler.  Synchronous   *)
(* code and awaits that touch no shared state (validation, the token       *)
(* guard, bcrypt) are folded into the statement that follows them.         *)
(***************************************************************************)
EXTENDS Integers, FiniteSets, Sequences, Bags, TLC

VARIABLES
    now,        \* Date.now()
    ticks,      \* how often the clock has advanced
    store,      \* the limiter's store: identity -> hit count and window end
    cache,      \* the Map: resolved URL -> { data, timestamp }
    inflight,   \* requests suspended on their upstream call (a bag)
    resp,       \* what the last step did and the response it sent, if any
    win,        \* history: per identity, its search requests' current window
    seen,       \* history: per identity, the current window of all its
                \* requests to limited routes
    lastStore,  \* history: request parameters -> the last value stored
    db,         \* the database: its tables and the sequences of their ids
    reqs,       \* requests suspended between two statements (a bag)
    out,        \* what the last database-side step did and what it answered
    started,    \* how many requests that can insert rows have been started
    answers     \* history: the answers given to registrations (a bag)

vars == <<now, ticks, store, cache, inflight, resp, win, seen, lastStore,
          db, reqs, out, started, answers>>

\* the search side of the state and the data side of it
searchvars == <<now, ticks, store, cache, inflight, resp, win, seen, lastStore>>

datavars == <<db, reqs, out, started, answers>>

----------------------------------------------------------------------------
(* Program constants *)

windowMs_Seconds == 24 * 60 * 60

\* rateLimit({ windowMs: 24 * 60 * 60 * 1000, ... })
windowMs == 24 * 60 * 60 * 1000

\* rateLimit({ max: 50, ... })
max == 50

\* const CACHE_TTL = 3600000
CACHE_TTL == 3600000

\* the literal 50 of `parseInt(remaining) || 50` and `parseInt(limit) || 50`
StatusFallback == 50

\* const { query, maxResults = 15, startIndex = 0 } = req.query
DefaultMaxResults == 15

DefaultStartIndex == 0

----------------------------------------------------------------------------
(* Bounds of the model *)

\* clock advances per behaviour
MaxTicks == 3

\* requests of one identity suspended on their upstream call at one time
MaxInFlight == 1

\* requests one identity sends to limited routes in the cache scenarios
MaxSearches == 2

\* search requests per behaviour in the paging scenarios
MaxPaged == 3

\* clock advances per behaviour in the paging scenarios
MaxExpiries == 1

\* requests an identity sends after it has reached the limit
MaxOver == 2

\* requests of the second identity in the limiter scenarios
MaxOther == 1

\* clock advances per behaviour in the limiter scenarios
MaxHalfDays == 2

\* status requests an identity sends beyond its search requests
MaxStatus == 1

\* handlers suspended between two statements at one time
MaxActive == 2

\* registrations per behaviour in the account scenarios
MaxRegistrations == 3

\* track requests per behaviour in the tracking scenarios
MaxTracking == 2

\* track requests per behaviour in the reading scenarios
MaxTracked == 2

\* track requests per behaviour in the guard scenarios
MaxGuarded == 1

\* track requests per behaviour in the scenarios with deletes
MaxBeforeDelete == 3

\* track requests per behaviour in the listing scenarios
MaxListed == 1

\* starts of the server per behaviour in the start-up scenarios
MaxRuns == 3

----------------------------------------------------------------------------
(* Inputs *)

Clients == {"ip1", "ip2"}

\* the identity of the cache scenarios
CacheClients == {"ip1"}

\* req.query.query: missing, blank, or a real query
Absent == "absent"

Queries == {Absent, " ", "q1"}

\* req.query.maxResults / startIndex as sent by the client (strings) or missing
MaxResultsIn == {Absent, "15"}

StartIndexIn == {Absent, "10"}

BookIds == {"b1"}

\* what the upstream call can come back with
Payloads == {"p1", "p2"}

Outcomes == {"ok", "http_error", "network_error"}

\* only a good answer carries a payload
PayloadsOf(outcome) == IF outcome = "ok" THEN Payloads ELSE {""}

----------------------------------------------------------------------------
(* Values *)

\* the body of a response that carries no data, and getCachedOrFetch's null
null == [shape |-> "null", query |-> "", payload |-> ""]

\* a step of kind op that sends no response
Event(op, ip) ==
    [op |-> op, ip |-> ip, route |-> "", status |-> 0, data |-> null,
     limit |-> -1, remaining |-> -1, resetTime |-> -1, cleaned |-> 0]

\* res.status(status).json(data) sent by a step of kind op
Reply(op, ip, route, status, data) ==
    [op |-> op, ip |-> ip, route |-> route, status |-> status, data |-> data,
     limit |-> -1, remaining |-> -1, resetTime |-> -1, cleaned |-> 0]

\* a rate-limit store entry that does not exist yet
NoClient == [totalHits |-> 0, resetTime |-> 0]

Max2(a, b) == IF a > b THEN a ELSE b

\* the 24 hours the limiter's window is meant to last, in milliseconds
Day == 24 * 60 * 60 * 1000

----------------------------------------------------------------------------
(* Rate limiter: searchLimiter = rateLimit({...}) *)

\* The store's accounting of one hit of a client: a client whose window has
\* ended (or who has none) starts a new window at this request, then the hit
\* is counted.
ClientAfterHit(c) ==
    LET base == IF c.resetTime <= now
                THEN [totalHits |-> 0, resetTime |-> now + windowMs]
                ELSE c
    IN  [base EXCEPT !.totalHits = @ + 1]

keyGenerator_Shared(ip) == "ip1"

\* The identity a request is counted under: no keyGenerator is configured,
\* so it is the caller's address (req.ip).
keyGenerator(ip) == ip

\* store.increment(key) as run by the middleware for a request of ip
increment(ip) ==
    [store EXCEPT ![keyGenerator(ip)] = ClientAfterHit(store[keyGenerator(ip)])]

\* the hit count the middleware sees for this request
totalHits(ip) == increment(ip)[keyGenerator(ip)].totalHits

\* the middleware calls `handler` instead of next() when the count exceeds max
limited(ip) == totalHits(ip) > max

\* the RateLimit-Remaining and RateLimit-Limit headers (standardHeaders: true)
RateLimitRemaining(ip) == Max2(0, max - totalHits(ip))

RateLimitLimit == max

\* handler: (req, res) => res.status(429).json({ error, resetTime })
handler(op, ip, route) ==
    [op |-> op, ip |-> ip, route |-> route, status |-> 429, data |-> null,
     limit |-> -1, remaining |-> -1,
     resetTime |-> now + 24 * 60 * 60 * 1000, cleaned |-> 0]

----------------------------------------------------------------------------
(* Cache: const cache = new Map() *)

CacheSet(c, url, entry) ==
    [u \in DOMAIN c \cup {url} |-> IF u = url THEN entry ELSE c[u]]

CacheDelete(c, url) == [u \in DOMAIN c \ {url} |-> c[u]]

getCachedOrFetch_StaleAtTtl(url) ==
    IF url \in DOMAIN cache
    THEN IF now - cache[url].timestamp <= CACHE_TTL
         THEN [ret |-> cache[url].data, cache |-> cache]
         ELSE [ret |-> null, cache |-> CacheDelete(cache, url)]
    ELSE [ret |-> null, cache |-> cache]

getCachedOrFetch_Clear(url) ==
    IF url \in DOMAIN cache
    THEN IF now - cache[url].timestamp < CACHE_TTL
         THEN [ret |-> cache[url].data, cache |-> cache]
         ELSE [ret |-> null, cache |-> << >>]
    ELSE [ret |-> null, cache |-> cache]

\* getCachedOrFetch(url): the value returned and the cache it leaves behind
getCachedOrFetch(url) ==
    IF url \in DOMAIN cache
    THEN IF now - cache[url].timestamp < CACHE_TTL
         THEN [ret |-> cache[url].data, cache |-> cache]
         ELSE [ret |-> null, cache |-> CacheDelete(cache, url)]
    ELSE [ret |-> null, cache |-> cache]

SweepExpired_Never(u) == cache[u].timestamp - now > CACHE_TTL

\* the entries the hourly setInterval callback deletes
SweepExpired(u) == now - cache[u].timestamp > CACHE_TTL

----------------------------------------------------------------------------
(* Search proxy *)

\* String.prototype.trim on the query values of the model
Trim(q) == IF q = " " THEN "" ELSE q

\* !query || query.trim() === ''
QueryMissing(q) == q = Absent \/ Trim(q) = ""

SearchUrl_NoPaging(query, maxResults, startIndex) ==
    [path |-> "", q |-> query, maxResults |-> Absent, startIndex |-> Absent]

\* the resolved upstream URL of a search; the destructuring defaults stand in
\* for missing pagination parameters
SearchUrl(query, maxResults, startIndex) ==
    [path |-> "",
     q |-> query,
     maxResults |-> IF maxResults = Absent THEN ToString(DefaultMaxResults)
                    ELSE maxResults,
     startIndex |-> IF startIndex = Absent THEN ToString(DefaultStartIndex)
                    ELSE startIndex]

\* the resolved upstream URL of a book-detail request
BookUrl(id) == [path |-> id, q |-> Absent, maxResults |-> Absent,
                startIndex |-> Absent]

\* responseData = { books, totalItems, query } / book = {...}
SearchData(query, payload) ==
    [shape |-> "search", query |-> query, payload |-> payload]

BookData(payload) == [shape |-> "book", query |-> "", payload |-> payload]

\* a request suspended on fetch(url); key is history: what was asked for
InFlight(ip, route, url, query, key) ==
    [ip |-> ip, route |-> route, url |-> url, query |-> query, key |-> key]

\* how many requests of ip are suspended on their upstream call
Suspended(ip) ==
    BagCardinality([r \in {x \in BagToSet(inflight) : x.ip = ip} |->
                        inflight[r]])

----------------------------------------------------------------------------
(* History bookkeeping, independent of the limiter's and the cache's own
   state. *)

\* what a search asks for: the query and the pagination in effect
SearchKey(query, maxResults, startIndex) ==
    <<"search", query,
      IF maxResults = Absent THEN "15" ELSE maxResults,
      IF startIndex = Absent THEN "0" ELSE startIndex>>

BookKey(id) == <<"book", id, "", "">>

\* a window of requests of one identity: opened by the first request, over
\* 24 hours later; n counts its requests, over tells whether the window
\* before it ended with more than max requests
WindowOpen(w) == w.n > 0 /\ now < w.start + Day

WinAfter(w) ==
    IF WindowOpen(w)
    THEN [w EXCEPT !.n = @ + 1]
    ELSE [start |-> now, n |-> 1, over |-> w.n > max]

NoWindow == [start |-> 0, n |-> 0, over |-> FALSE]

----------------------------------------------------------------------------
(* Accounts and tokens: middleware/auth (src/unnamed/part_000) *)

\* const JWT_SECRET = process.env.JWT_SECRET || '...'
JWT_SECRET == "secret"

\* a column or a selected id that is NULL
NULL == 0

\* a DATE column that is NULL, or a date the caller did not send
NullDate == << >>

\* a VARCHAR column that is NULL (`name || null` stores no empty name)
NullName == ""

\* the Authorization header carries no second word
NoToken == [kind |-> "undefined", userId |-> NULL, email |-> << >>,
            sig |-> "", exp |-> 0]

\* what verifyToken returns for a token it does not accept
NoClaims == [userId |-> NULL, email |-> << >>]

\* Date.now() in the seconds jsonwebtoken counts in
NowSeconds == now \div 1000

\* bcrypt.hash(password, SALT_ROUNDS): the salt is part of the hash and
\* bcrypt.compare re-derives with it, so only the password tells hashes apart
hashPassword(password) == <<"bcrypt", password>>

\* bcrypt.compare(password, hash)
comparePassword(password, hash) == hash = hashPassword(password)

\* jwt.sign({ userId, email }, JWT_SECRET, { expiresIn: '30d' })
generateToken(userId, email) ==
    [kind |-> "jwt", userId |-> userId, email |-> email, sig |-> JWT_SECRET,
     exp |-> NowSeconds + 30 * 24 * 60 * 60]

verifyToken_IgnoresExpiry(token) ==
    IF token.kind = "jwt" /\ token.sig = JWT_SECRET
    THEN [userId |-> token.userId, email |-> token.email]
    ELSE NoClaims

\* jwt.verify(token, JWT_SECRET) or null: a well-formed token, signed with
\* the secret, whose expiry lies ahead
verifyToken(token) ==
    IF token.kind = "jwt" /\ token.sig = JWT_SECRET /\ NowSeconds < token.exp
    THEN [userId |-> token.userId, email |-> token.email]
    ELSE NoClaims

\* authHeader && authHeader.split(' ')[1]; a header is the sequence of its
\* space-separated words, an absent header the empty sequence
BearerToken(authHeader) ==
    IF Len(authHeader) >= 2 THEN authHeader[2] ELSE NoToken

\* authenticateToken: the status it answers with, or 0 when it calls next()
authenticateToken(authHeader) ==
    IF BearerToken(authHeader) = NoToken THEN 401
    ELSE IF verifyToken(BearerToken(authHeader)) = NoClaims THEN 403
    ELSE 0

\* the error bodies of authenticateToken
AuthError(status) ==
    IF status = 401 THEN "Access token required"
    ELSE IF status = 403 THEN "Invalid or expired token"
    ELSE ""

\* req.user after authenticateToken
ReqUser(authHeader) == verifyToken(BearerToken(authHeader))

----------------------------------------------------------------------------
(* Request validation: express-validator chains of the account routes.  An
   email is the pair of its local part and its domain; a string without @ is
   a one-element sequence. *)

isEmail(email) == Len(email) = 2

\* lower case of the letters the inputs use
Lower(s) == IF s = "A" THEN "a" ELSE IF s = "X.IO" THEN "x.io" ELSE s

\* normalizeEmail(): lower-cases the address
normalizeEmail(email) == [i \in DOMAIN email |-> Lower(email[i])]

\* body('email').isEmail(), body('password').isLength({ min: 6 })
RegisterValid(body) == isEmail(body.email) /\ Len(body.password) >= 6

\* body('email').isEmail(), body('password').exists()
LoginValid(body) == isEmail(body.email) /\ body.password # Absent

----------------------------------------------------------------------------
(* The database: the tables of runMigrations (src/database/migrate.js) as
   sets of rows, and the statements the handlers send.  Columns no handler
   reads back and no constraint mentions (titles, covers, timestamps) are
   left out.  A statement yields the database
   it leaves and what it returns; ok is FALSE when it raises an error.  A
   SERIAL id is drawn before the constraints are checked, so a rejected or
   conflicting insert still advances the sequence. *)

\* the tables of runMigrations in the order it creates them, each with the
\* tables its REFERENCES clauses name
Tables ==
    <<[name |-> "users", refs |-> {}],
      [name |-> "authors", refs |-> {}],
      [name |-> "series", refs |-> {}],
      [name |-> "books", refs |-> {"series"}],
      [name |-> "book_authors", refs |-> {"books", "authors"}],
      [name |-> "user_tracked_books", refs |-> {"users", "books"}],
      [name |-> "user_tracked_authors", refs |-> {"users", "authors"}],
      [name |-> "user_tracked_series", refs |-> {"users", "series"}],
      [name |-> "community_release_dates", refs |-> {"books", "users"}]>>

\* the indexes of runMigrations in the order it creates them, each with the
\* table it is on
Indexes ==
    <<[name |-> "idx_books_google_id", refs |-> {"books"}],
      [name |-> "idx_books_release_date", refs |-> {"books"}],
      [name |-> "idx_user_tracked_books_user", refs |-> {"user_tracked_books"}],
      [name |-> "idx_user_tracked_authors_user",
        refs |-> {"user_tracked_authors"}],
      [name |-> "idx_user_tracked_series_user",
        refs |-> {"user_tracked_series"}],
      [name |-> "idx_book_authors_book", refs |-> {"book_authors"}],
      [name |-> "idx_book_authors_author", refs |-> {"book_authors"}]>>

\* the schema of a database nothing was created in, and the schema after a
\* complete run of runMigrations
NoSchema == [tables |-> {}, indexes |-> {}]

FullSchema ==
    [tables |-> {Tables[k].name : k \in 1..Len(Tables)},
     indexes |-> {Indexes[k].name : k \in 1..Len(Indexes)}]

EmptyDb ==
    [users |-> {}, authors |-> {}, series |-> {}, books |-> {},
     book_authors |-> {}, user_tracked_books |-> {},
     user_tracked_authors |-> {}, user_tracked_series |-> {},
     seq |-> [users |-> 0, authors |-> 0, series |-> 0, books |-> 0,
              user_tracked_books |-> 0, user_tracked_authors |-> 0,
              user_tracked_series |-> 0],
     schema |-> FullSchema]

\* SELECT EXISTS (SELECT FROM information_schema.tables WHERE ... table_name
\* = 'users')
TableExists(d, name) == name \in d.schema.tables

\* CREATE TABLE IF NOT EXISTS: an error when a referenced table is missing
CreateTable(d, t) ==
    IF t.name \in d.schema.tables
    THEN [ok |-> TRUE, db |-> d]
    ELSE IF t.refs \subseteq d.schema.tables
    THEN [ok |-> TRUE, db |-> [d EXCEPT !.schema.tables = @ \cup {t.name}]]
    ELSE [ok |-> FALSE, db |-> d]

\* CREATE INDEX IF NOT EXISTS: an error when its table is missing
CreateIndex(d, x) ==
    IF x.name \in d.schema.indexes
    THEN [ok |-> TRUE, db |-> d]
    ELSE IF x.refs \subseteq d.schema.tables
    THEN [ok |-> TRUE, db |-> [d EXCEPT !.schema.indexes = @ \cup {x.name}]]
    ELSE [ok |-> FALSE, db |-> d]

\* the k-th statement of runMigrations after the check: the tables, then the
\* indexes
MigrationStatement(d, k) ==
    IF k <= Len(Tables)
    THEN CreateTable(d, Tables[k])
    ELSE CreateIndex(d, Indexes[k - Len(Tables)])

MigrationLength == Len(Tables) + Len(Indexes)

\* SELECT ... FROM users WHERE email = $1
SelectUserByEmail(d, email) == {u \in d.users : u.email = email}

\* INSERT INTO users (email, password_hash, name) VALUES ($1, $2, $3)
\* RETURNING ...; email is UNIQUE
InsertUser(d, email, password_hash, name) ==
    LET id == d.seq.users + 1
        d1 == [d EXCEPT !.seq.users = id]
        row == [id |-> id, email |-> email, password_hash |-> password_hash,
                name |-> name]
    IN  IF \E u \in d.users : u.email = email
        THEN [ok |-> FALSE, db |-> d1, id |-> NULL]
        ELSE [ok |-> TRUE, db |-> [d1 EXCEPT !.users = @ \cup {row}],
              id |-> id]

UpsertAuthor_InsertsAnew(d, name) ==
    LET id == d.seq.authors + 1
    IN  [ok |-> TRUE,
         db |-> [d EXCEPT !.seq.authors = id,
                          !.authors = @ \cup {[id |-> id, name |-> name]}],
         id |-> id]

\* INSERT INTO authors (name) VALUES ($1)
\* ON CONFLICT (name) DO UPDATE SET name = $1 RETURNING id
UpsertAuthor(d, name) ==
    LET id == d.seq.authors + 1
        d1 == [d EXCEPT !.seq.authors = id]
        old == {a \in d.authors : a.name = name}
    IN  IF old # {}
        THEN [ok |-> TRUE,
              db |-> [d1 EXCEPT !.authors =
                         {IF a \in old THEN [a EXCEPT !.name = name] ELSE a :
                              a \in d.authors}],
              id |-> (CHOOSE a \in old : TRUE).id]
        ELSE [ok |-> TRUE,
              db |-> [d1 EXCEPT !.authors = @ \cup {[id |-> id, name |-> name]}],
              id |-> id]

\* INSERT INTO series (name) VALUES ($1)
\* ON CONFLICT (name) DO UPDATE SET name = $1 RETURNING id
UpsertSeries(d, name) ==
    LET id == d.seq.series + 1
        d1 == [d EXCEPT !.seq.series = id]
        old == {s \in d.series : s.name = name}
    IN  IF old # {}
        THEN [ok |-> TRUE,
              db |-> [d1 EXCEPT !.series =
                         {IF s \in old THEN [s EXCEPT !.name = name] ELSE s :
                              s \in d.series}],
              id |-> (CHOOSE s \in old : TRUE).id]
        ELSE [ok |-> TRUE,
              db |-> [d1 EXCEPT !.series = @ \cup {[id |-> id, name |-> name]}],
              id |-> id]

\* SELECT id FROM books WHERE google_books_id = $1
SelectBookByGoogleId(d, googleBooksId) ==
    {b \in d.books : b.google_books_id = googleBooksId}

\* INSERT INTO books (google_books_id, ..., release_date) VALUES (...)
\* RETURNING id; google_books_id is UNIQUE
InsertBook(d, googleBooksId, releaseDate) ==
    LET id == d.seq.books + 1
        d1 == [d EXCEPT !.seq.books = id]
        row == [id |-> id, google_books_id |-> googleBooksId,
                release_date |-> releaseDate, series_id |-> NULL]
    IN  IF \E b \in d.books : b.google_books_id = googleBooksId
        THEN [ok |-> FALSE, db |-> d1, id |-> NULL]
        ELSE [ok |-> TRUE, db |-> [d1 EXCEPT !.books = @ \cup {row}],
              id |-> id]

\* the rows a foreign key may point at
HasId(table, id) == \E row \in table : row.id = id

InsertBookAuthor_OrderOne(d, bookId, authorId, authorOrder) ==
    [ok |-> TRUE,
     db |-> [d EXCEPT !.book_authors = @ \cup
                {[book_id |-> bookId, author_id |-> authorId,
                  author_order |-> 1]}]]

\* INSERT INTO book_authors (book_id, author_id, author_order)
\* VALUES ($1, $2, $3) ON CONFLICT DO NOTHING; PRIMARY KEY (book_id,
\* author_id), both columns foreign keys
InsertBookAuthor(d, bookId, authorId, authorOrder) ==
    IF \E ba \in d.book_authors :
          ba.book_id = bookId /\ ba.author_id = authorId
    THEN [ok |-> TRUE, db |-> d]
    ELSE IF ~HasId(d.books, bookId) \/ ~HasId(d.authors, authorId)
    THEN [ok |-> FALSE, db |-> d]
    ELSE [ok |-> TRUE,
          db |-> [d EXCEPT !.book_authors = @ \cup
                     {[book_id |-> bookId, author_id |-> authorId,
                       author_order |-> authorOrder]}]]

\* UPDATE books SET series_id = $1 WHERE id = $2; series_id is a foreign key
UpdateBookSeries(d, seriesId, bookId) ==
    IF ~HasId(d.books, bookId) THEN [ok |-> TRUE, db |-> d]
    ELSE IF ~HasId(d.series, seriesId) THEN [ok |-> FALSE, db |-> d]
    ELSE [ok |-> TRUE,
          db |-> [d EXCEPT !.books =
                     {IF b.id = bookId THEN [b EXCEPT !.series_id = seriesId]
                      ELSE b : b \in d.books}]]

\* INSERT INTO user_tracked_books (user_id, book_id) VALUES ($1, $2)
\* ON CONFLICT DO NOTHING; UNIQUE(user_id, book_id), both foreign keys
InsertTrackedBook(d, userId, bookId) ==
    LET id == d.seq.user_tracked_books + 1
        d1 == [d EXCEPT !.seq.user_tracked_books = id]
    IN  IF \E t \in d.user_tracked_books :
              t.user_id = userId /\ t.book_id = bookId
        THEN [ok |-> TRUE, db |-> d1]
        ELSE IF ~HasId(d.users, userId) \/ ~HasId(d.books, bookId)
        THEN [ok |-> FALSE, db |-> d1]
        ELSE [ok |-> TRUE,
              db |-> [d1 EXCEPT !.user_tracked_books = @ \cup
                         {[id |-> id, user_id |-> userId,
                           book_id |-> bookId]}]]

\* INSERT INTO user_tracked_authors (user_id, author_id) VALUES ($1, $2)
\* ON CONFLICT DO NOTHING; UNIQUE(user_id, author_id), both foreign keys
InsertTrackedAuthor(d, userId, authorId) ==
    LET id == d.seq.user_tracked_authors + 1
        d1 == [d EXCEPT !.seq.user_tracked_authors = id]
    IN  IF \E t \in d.user_tracked_authors :
              t.user_id = userId /\ t.author_id = authorId
        THEN [ok |-> TRUE, db |-> d1]
        ELSE IF ~HasId(d.users, userId) \/ ~HasId(d.authors, authorId)
        THEN [ok |-> FALSE, db |-> d1]
        ELSE [ok |-> TRUE,
              db |-> [d1 EXCEPT !.user_tracked_authors = @ \cup
                         {[id |-> id, user_id |-> userId,
                           author_id |-> authorId]}]]

\* an insert into user_tracked_series, which the schema provides for and no
\* handler sends: UNIQUE(user_id, series_id), both foreign keys
InsertTrackedSeries(d, userId, seriesId) ==
    LET id == d.seq.user_tracked_series + 1
        d1 == [d EXCEPT !.seq.user_tracked_series = id]
    IN  IF (\E t \in d.user_tracked_series :
               t.user_id = userId /\ t.series_id = seriesId)
           \/ ~HasId(d.users, userId) \/ ~HasId(d.series, seriesId)
        THEN [ok |-> FALSE, db |-> d1]
        ELSE [ok |-> TRUE,
              db |-> [d1 EXCEPT !.user_tracked_series = @ \cup
                         {[id |-> id, user_id |-> userId,
                           series_id |-> seriesId]}]]

DeleteTrackedBook_WholeBook(d, userId, bookId) ==
    [d EXCEPT !.user_tracked_books = {t \in @ : t.book_id # bookId}]

\* DELETE FROM user_tracked_books WHERE user_id = $1 AND book_id = $2
DeleteTrackedBook(d, userId, bookId) ==
    [d EXCEPT !.user_tracked_books =
        {t \in @ : ~(t.user_id = userId /\ t.book_id = bookId)}]

\* DELETE FROM user_tracked_authors WHERE user_id = $1 AND author_id = $2
DeleteTrackedAuthor(d, userId, authorId) ==
    [d EXCEPT !.user_tracked_authors =
        {t \in @ : ~(t.user_id = userId /\ t.author_id = authorId)}]

\* a delete of a users row: ON DELETE CASCADE of the three tracking tables
DeleteUser(d, id) ==
    [d EXCEPT !.users = {u \in @ : u.id # id},
              !.user_tracked_books = {t \in @ : t.user_id # id},
              !.user_tracked_authors = {t \in @ : t.user_id # id},
              !.user_tracked_series = {t \in @ : t.user_id # id}]

DeleteBook_KeepsLinks(d, id) ==
    [d EXCEPT !.books = {b \in @ : b.id # id}]

\* a delete of a books row: ON DELETE CASCADE of book_authors and
\* user_tracked_books
DeleteBook(d, id) ==
    [d EXCEPT !.books = {b \in @ : b.id # id},
              !.book_authors = {ba \in @ : ba.book_id # id},
              !.user_tracked_books = {t \in @ : t.book_id # id}]

\* a delete of an authors row: ON DELETE CASCADE of book_authors and
\* user_tracked_authors
DeleteAuthor(d, id) ==
    [d EXCEPT !.authors = {a \in @ : a.id # id},
              !.book_authors = {ba \in @ : ba.author_id # id},
              !.user_tracked_authors = {t \in @ : t.author_id # id}]

\* a delete of a series row: ON DELETE SET NULL of books.series_id,
\* ON DELETE CASCADE of user_tracked_series
DeleteSeries(d, id) ==
    [d EXCEPT !.series = {s \in @ : s.id # id},
              !.books = {IF b.series_id = id
                         THEN [b EXCEPT !.series_id = NULL] ELSE b : b \in @},
              !.user_tracked_series = {t \in @ : t.series_id # id}]

----------------------------------------------------------------------------
(* The calendar query of GET /api/calendar/:year and the books query of
   GET /api/tracking/all.  A date is <<year, month, day>>.  The ORDER BY of
   the statement is left out: the result is the set of its rows. *)

\* EXTRACT(YEAR FROM release_date); NULL for a NULL date
ExtractYear(date) == IF date = NullDate THEN NULL ELSE date[1]

\* LEFT JOIN book_authors ba ON b.id = ba.book_id
\* LEFT JOIN authors a ON ba.author_id = a.id: the author names joined to a
\* book, a single NULL when it has no link
JoinedAuthors(d, b) ==
    LET names == {a.name : a \in {x \in d.authors :
                     \E ba \in d.book_authors :
                         ba.book_id = b.id /\ ba.author_id = x.id}}
    IN  IF names = {} THEN {NullName} ELSE names

\* LEFT JOIN series s ON b.series_id = s.id
JoinedSeries(d, b) ==
    IF \E s \in d.series : s.id = b.series_id
    THEN (CHOOSE s \in d.series : s.id = b.series_id).name
    ELSE NullName

\* FROM user_tracked_books utb JOIN books b ON utb.book_id = b.id
\* LEFT JOIN ...: the joined rows before WHERE
CalendarJoin(d) ==
    UNION {UNION {{[user_id |-> t.user_id, book |-> b, author |-> n,
                    series_name |-> JoinedSeries(d, b)] :
                       n \in JoinedAuthors(d, b)} :
                  b \in {x \in d.books : x.id = t.book_id}} :
           t \in d.user_tracked_books}

CalendarWhere_AnyUser(row, userId, year) ==
    ExtractYear(row.book.release_date) = year

\* WHERE utb.user_id = $1 AND EXTRACT(YEAR FROM b.release_date) = $2; a
\* comparison with NULL selects nothing
CalendarWhere(row, userId, year) ==
    /\ row.user_id = userId
    /\ ExtractYear(row.book.release_date) # NULL
    /\ ExtractYear(row.book.release_date) = year

\* GROUP BY b.id, s.name
CalendarGroup(row) == <<row.book.id, row.series_name>>

\* the groups of releases, one per (b.id, s.name), each with the author
\* names array_agg(a.name) is fed
CalendarQuery(d, userId, year) ==
    LET rows == {row \in CalendarJoin(d) : CalendarWhere(row, userId, year)}
    IN  {[id |-> row.book.id,
          release_date |-> row.book.release_date,
          authors |-> {x.author : x \in {y \in rows :
                          CalendarGroup(y) = CalendarGroup(row)}},
          series_name |-> row.series_name] : row \in rows}

\* array_agg(a.name) over the names of one group: the statement gives the
\* aggregate no ORDER BY, so the array holds the names in whatever order the
\* join delivers its rows
ArrayAgg(names) ==
    {arr \in [1..Cardinality(names) -> names] :
        \A i, j \in 1..Cardinality(names) : i # j => arr[i] # arr[j]}

\* the results the statement can return for these groups: in each row the
\* names are one of the arrays array_agg can build
QueryResults(groups) ==
    {{[g EXCEPT !.authors = pick[g]] : g \in groups} :
        pick \in {f \in [groups -> UNION {ArrayAgg(g.authors) : g \in groups}] :
                     \A g \in groups : f[g] \in ArrayAgg(g.authors)}}

TrackedWhere_AnyUser(row, userId) == TRUE

\* WHERE utb.user_id = $1 of the books query of GET /api/tracking/all
TrackedWhere(row, userId) == row.user_id = userId

\* the groups of the books query of GET /api/tracking/all
TrackedBooksQuery(d, userId) ==
    LET rows == {row \in CalendarJoin(d) : TrackedWhere(row, userId)}
    IN  {[id |-> row.book.id,
          release_date |-> row.book.release_date,
          authors |-> {x.author : x \in {y \in rows :
                          CalendarGroup(y) = CalendarGroup(row)}},
          series_name |-> row.series_name] : row \in rows}

\* SELECT a.id, a.name FROM user_tracked_authors uta JOIN authors a ...
\* WHERE uta.user_id = $1
TrackedAuthorsQuery(d, userId) ==
    {a \in d.authors :
        \E t \in d.user_tracked_authors :
            t.user_id = userId /\ t.author_id = a.id}

\* SELECT s.id, s.name FROM user_tracked_series uts JOIN series s ...
\* WHERE uts.user_id = $1
TrackedSeriesQuery(d, userId) ==
    {x \in d.series :
        \E t \in d.user_tracked_series :
            t.user_id = userId /\ t.series_id = x.id}

----------------------------------------------------------------------------
(* Requests and answers of the data side *)

\* a request body with nothing in it
NoBody ==
    [email |-> << >>, password |-> Absent, name |-> "",
     googleBooksId |-> "", authors |-> << >>, releaseDate |-> NullDate,
     series |-> Absent, authorName |-> "", id |-> NULL, year |-> NULL]

\* a users row that was not selected
NoUser == [id |-> NULL, email |-> << >>, password_hash |-> << >>,
           name |-> NullName]

\* a handler suspended before the statement pc, with its local variables
Req(op, pc, userId, body) ==
    [op |-> op, pc |-> pc, userId |-> userId, body |-> body,
     bookId |-> NULL, i |-> 0, authorId |-> NULL, seriesId |-> NULL,
     found |-> FALSE, user |-> NoUser, books |-> {}, authors |-> {}]

\* a step of the handler of op: the statement it ran and, when status is
\* not 0, the response it sent; affected is the number of rows the statement
\* inserted, deleted or set to NULL, dependent rows included
Out(op, step, status, error) ==
    [op |-> op, step |-> step, status |-> status, error |-> error,
     header |-> << >>, userId |-> NULL, body |-> NoBody, token |-> NoToken,
     id |-> NULL, rows |-> {}, affected |-> 0, authors |-> {},
     series |-> {}]

\* the rows of the tables of d
RowCount(d) ==
    Cardinality(d.users) + Cardinality(d.authors) + Cardinality(d.series)
    + Cardinality(d.books) + Cardinality(d.book_authors)
    + Cardinality(d.user_tracked_books) + Cardinality(d.user_tracked_authors)
    + Cardinality(d.user_tracked_series)

\* the answer to a registration that passed validation
Answer(email, status, error) ==
    [email |-> email, status |-> status, error |-> error]

\* name || null after body('name').optional().trim()
NameOrNull(name) == IF Trim(name) = "" THEN NullName ELSE Trim(name)

\* series && series !== 'Standalone'
HasSeries(body) ==
    body.series # Absent /\ body.series # "" /\ body.series # "Standalone"

\* where the track-book handler continues after the author loop
AfterAuthors(body) == IF HasSeries(body) THEN "upsert_series" ELSE "track"

\* the request r goes on as r2 / is answered and gone
Continue(r, r2) == reqs' = (reqs (-) SetToBag({r})) (+) SetToBag({r2})

Finish(r) == reqs' = reqs (-) SetToBag({r})

\* r is suspended before the statement pc of the handler of op
At(r, op, pc) == BagIn(r, reqs) /\ r.op = op /\ r.pc = pc

----------------------------------------------------------------------------
Init ==
    /\ now = 0
    /\ ticks = 0
    /\ store = [c \in Clients |-> NoClient]
    /\ cache = << >>
    /\ inflight = EmptyBag
    /\ resp = Event("init", "")
    /\ win = [c \in Clients |-> NoWindow]
    /\ seen = [c \in Clients |-> NoWindow]
    /\ lastStore = << >>
    /\ db = EmptyDb
    /\ reqs = EmptyBag
    /\ out = Out("init", "", 0, "")
    /\ started = 0
    /\ answers = EmptyBag

\* The route handler of GET /api/books/search up to its first suspension:
\* the query check and the cache lookup; on a miss the upstream fetch is
\* issued and the request suspends.
SearchHandler(ip, query, maxResults, startIndex) ==
    IF QueryMissing(query)
    THEN /\ resp' = Reply("search", ip, "search", 400, null)
         /\ UNCHANGED <<cache, inflight>>
    ELSE LET url == SearchUrl(query, maxResults, startIndex)
             got == getCachedOrFetch(url)
         IN  /\ cache' = got.cache
             /\ IF got.ret # null
                THEN /\ resp' = Reply("search", ip, "search", 200, got.ret)
                     /\ UNCHANGED inflight
                ELSE /\ Suspended(ip) < MaxInFlight
                     /\ inflight' = inflight (+) SetToBag({
                           InFlight(ip, "search", url, query,
                                    SearchKey(query, maxResults, startIndex))})
                     /\ resp' = Event("search", ip)

SearchLimited_CallsNext(ip, query, maxResults, startIndex) ==
    SearchHandler(ip, query, maxResults, startIndex)

\* The limiter's `handler` answers a search over the limit; it does not call
\* next(), so the route handler does not run.
SearchLimited(ip, query, maxResults, startIndex) ==
    /\ resp' = handler("search", ip, "search")
    /\ UNCHANGED <<cache, inflight>>

SearchRequest_HitsAreFree(ip, query, maxResults, startIndex) ==
    LET hit == /\ ~QueryMissing(query)
               /\ getCachedOrFetch(
                      SearchUrl(query, maxResults, startIndex)).ret # null
    IN  /\ UNCHANGED <<now, ticks, lastStore, datavars>>
        /\ IF hit
           THEN /\ UNCHANGED <<store, win, seen>>
                /\ SearchHandler(ip, query, maxResults, startIndex)
           ELSE /\ store' = increment(ip)
                /\ win' = [win EXCEPT ![ip] = WinAfter(win[ip])]
                /\ seen' = [seen EXCEPT ![ip] = WinAfter(seen[ip])]
                /\ IF limited(ip)
                   THEN SearchLimited(ip, query, maxResults, startIndex)
                   ELSE SearchHandler(ip, query, maxResults, startIndex)

\* GET /api/books/search: searchLimiter, then the route handler
SearchRequest(ip, query, maxResults, startIndex) ==
    /\ store' = increment(ip)
    /\ win' = [win EXCEPT ![ip] = WinAfter(win[ip])]
    /\ seen' = [seen EXCEPT ![ip] = WinAfter(seen[ip])]
    /\ UNCHANGED <<now, ticks, lastStore, datavars>>
    /\ IF limited(ip)
       THEN SearchLimited(ip, query, maxResults, startIndex)
       ELSE SearchHandler(ip, query, maxResults, startIndex)

\* GET /api/books/:id up to its first suspension (src/server.js); no limiter
BookRequest(ip, id) ==
    LET url == BookUrl(id)
        got == getCachedOrFetch(url)
    IN  /\ cache' = got.cache
        /\ UNCHANGED <<now, ticks, store, win, seen, lastStore, datavars>>
        /\ IF got.ret # null
           THEN /\ resp' = Reply("book", ip, "book", 200, got.ret)
                /\ UNCHANGED inflight
           ELSE /\ Suspended(ip) < MaxInFlight
                /\ inflight' = inflight (+) SetToBag({
                      InFlight(ip, "book", url, "", BookKey(id))})
                /\ resp' = Event("book", ip)

FetchReturns_CachesFailure(r, outcome, payload) ==
    /\ BagIn(r, inflight)
    /\ inflight' = inflight (-) SetToBag({r})
    /\ UNCHANGED <<now, ticks, store, win, seen, datavars>>
    /\ LET data == IF outcome # "ok" THEN null
                   ELSE IF r.route = "search"
                   THEN SearchData(r.query, payload)
                   ELSE BookData(payload)
           entry == [data |-> data, timestamp |-> now]
       IN  /\ cache' = CacheSet(cache, r.url, entry)
           /\ lastStore' = CacheSet(lastStore, r.key, entry)
           /\ resp' = Reply("fetch", r.ip, r.route,
                            IF outcome = "ok" THEN 200 ELSE 500, data)

\* The upstream call of a suspended request comes back and the handler runs
\* to its end: a failed call or a non-ok status throws into the catch block,
\* a good answer is reshaped, stored in the cache and sent.
FetchReturns(r, outcome, payload) ==
    /\ BagIn(r, inflight)
    /\ inflight' = inflight (-) SetToBag({r})
    /\ UNCHANGED <<now, ticks, store, win, seen, datavars>>
    /\ IF outcome = "ok"
       THEN LET data == IF r.route = "search"
                        THEN SearchData(r.query, payload)
                        ELSE BookData(payload)
                entry == [data |-> data, timestamp |-> now]
            IN  /\ cache' = CacheSet(cache, r.url, entry)
                /\ lastStore' = CacheSet(lastStore, r.key, entry)
                /\ resp' = Reply("fetch", r.ip, r.route, 200, data)
       ELSE /\ resp' = Reply("fetch", r.ip, r.route, 500, null)
            /\ UNCHANGED <<cache, lastStore>>

\* GET /api/rate-limit-status, behind the same searchLimiter
StatusRequest(ip) ==
    /\ store' = increment(ip)
    /\ seen' = [seen EXCEPT ![ip] = WinAfter(seen[ip])]
    /\ UNCHANGED <<now, ticks, cache, inflight, win, lastStore, datavars>>
    /\ IF limited(ip)
       THEN resp' = handler("status", ip, "status")
       ELSE resp' = [op |-> "status", ip |-> ip, route |-> "status",
                     status |-> 200, data |-> null,
                     limit |-> IF RateLimitLimit = 0 THEN StatusFallback
                               ELSE RateLimitLimit,
                     remaining |-> IF RateLimitRemaining(ip) = 0
                                   THEN StatusFallback
                                   ELSE RateLimitRemaining(ip),
                     resetTime |-> -1, cleaned |-> 0]

\* setInterval(() => {...}, 3600000): the cache sweep; cleaned is its count
\* of deleted entries
Sweep ==
    /\ cache' = [u \in {v \in DOMAIN cache : ~SweepExpired(v)} |-> cache[u]]
    /\ resp' = [Event("sweep", "") EXCEPT
                  !.cleaned = Cardinality({v \in DOMAIN cache : SweepExpired(v)})]
    /\ UNCHANGED <<now, ticks, store, inflight, win, seen, lastStore,
                   datavars>>

\* the clock advances by d milliseconds
Tick(d) ==
    /\ ticks < MaxTicks
    /\ now' = now + d
    /\ ticks' = ticks + 1
    /\ resp' = Event("tick", "")
    /\ UNCHANGED <<store, cache, inflight, win, seen, lastStore, datavars>>

----------------------------------------------------------------------------
(* POST /api/auth/register *)

\* validation, then the SELECT that looks for the email
RegisterRequest(body) ==
    /\ started' = started + 1
    /\ UNCHANGED <<db, searchvars>>
    /\ IF ~RegisterValid(body)
       THEN /\ out' = [Out("register", "validate", 400, "errors")
                         EXCEPT !.body = body]
            /\ UNCHANGED <<reqs, answers>>
       ELSE LET email == normalizeEmail(body.email)
                clean == [body EXCEPT !.email = email]
            IN  IF SelectUserByEmail(db, email) # {}
                THEN /\ out' = [Out("register", "select", 400,
                                    "Email already registered")
                                  EXCEPT !.body = clean]
                     /\ answers' = answers (+) SetToBag({
                           Answer(email, 400, "Email already registered")})
                     /\ UNCHANGED reqs
                ELSE /\ reqs' = reqs (+) SetToBag({
                           Req("register", "insert", NULL, clean)})
                     /\ out' = [Out("register", "select", 0, "")
                                  EXCEPT !.body = clean]
                     /\ UNCHANGED answers

RegisterInsert_Merges(r) ==
    /\ At(r, "register", "insert")
    /\ Finish(r)
    /\ UNCHANGED <<started, searchvars>>
    /\ LET old == SelectUserByEmail(db, r.body.email)
           row == [id |-> IF old = {} THEN db.seq.users + 1
                          ELSE (CHOOSE u \in old : TRUE).id,
                   email |-> r.body.email,
                   password_hash |-> hashPassword(r.body.password),
                   name |-> NameOrNull(r.body.name)]
       IN  /\ db' = [db EXCEPT !.seq.users = @ + 1,
                               !.users = (@ \ old) \cup {row}]
           /\ out' = [Out("register", "insert", 201, "")
                        EXCEPT !.body = r.body, !.id = row.id,
                               !.userId = row.id,
                               !.token = generateToken(row.id, r.body.email)]
           /\ answers' = answers (+) SetToBag({
                 Answer(r.body.email, 201, "")})

\* the password is hashed and the INSERT runs; an error of the statement is
\* caught and answered 500
RegisterInsert(r) ==
    /\ At(r, "register", "insert")
    /\ Finish(r)
    /\ UNCHANGED <<started, searchvars>>
    /\ LET res == InsertUser(db, r.body.email,
                             hashPassword(r.body.password),
                             NameOrNull(r.body.name))
       IN  /\ db' = res.db
           /\ IF res.ok
              THEN /\ out' = [Out("register", "insert", 201, "")
                                EXCEPT !.body = r.body, !.id = res.id,
                                       !.userId = res.id,
                                       !.token = generateToken(res.id,
                                                               r.body.email)]
                   /\ answers' = answers (+) SetToBag({
                         Answer(r.body.email, 201, "")})
              ELSE /\ out' = [Out("register", "insert", 500,
                                  "Failed to register user")
                                EXCEPT !.body = r.body]
                   /\ answers' = answers (+) SetToBag({
                         Answer(r.body.email, 500,
                                "Failed to register user")})

----------------------------------------------------------------------------
(* POST /api/auth/login *)

\* validation, then the SELECT of the user by email
LoginRequest(body) ==
    /\ UNCHANGED <<db, started, answers, searchvars>>
    /\ IF ~LoginValid(body)
       THEN /\ out' = [Out("login", "validate", 400, "errors")
                         EXCEPT !.body = body]
            /\ UNCHANGED reqs
       ELSE LET email == normalizeEmail(body.email)
                clean == [body EXCEPT !.email = email]
                rows == SelectUserByEmail(db, email)
            IN  IF rows = {}
                THEN /\ out' = [Out("login", "select", 401,
                                    "Invalid email or password")
                                  EXCEPT !.body = clean]
                     /\ UNCHANGED reqs
                ELSE /\ reqs' = reqs (+) SetToBag({
                           [Req("login", "compare", NULL, clean)
                              EXCEPT !.user = CHOOSE u \in rows : TRUE]})
                     /\ out' = [Out("login", "select", 0, "")
                                  EXCEPT !.body = clean]

LoginCompare_TellsWrongPassword(r) ==
    /\ At(r, "login", "compare")
    /\ Finish(r)
    /\ UNCHANGED <<db, started, answers, searchvars>>
    /\ IF ~comparePassword(r.body.password, r.user.password_hash)
       THEN out' = [Out("login", "compare", 401, "Wrong password")
                      EXCEPT !.body = r.body]
       ELSE out' = [Out("login", "compare", 200, "")
                      EXCEPT !.body = r.body, !.id = r.user.id,
                             !.userId = r.user.id,
                             !.token = generateToken(r.user.id, r.user.email)]

\* the password is compared with the selected row's hash
LoginCompare(r) ==
    /\ At(r, "login", "compare")
    /\ Finish(r)
    /\ UNCHANGED <<db, started, answers, searchvars>>
    /\ IF ~comparePassword(r.body.password, r.user.password_hash)
       THEN out' = [Out("login", "compare", 401, "Invalid email or password")
                      EXCEPT !.body = r.body]
       ELSE out' = [Out("login", "compare", 200, "")
                      EXCEPT !.body = r.body, !.id = r.user.id,
                             !.userId = r.user.id,
                             !.token = generateToken(r.user.id, r.user.email)]

----------------------------------------------------------------------------
(* The routes behind authenticateToken *)

\* authenticateToken answers 401 or 403 and the handler does not run
Rejected(op, authHeader, body) ==
    /\ authenticateToken(authHeader) # 0
    /\ out' = [Out(op, "guard", authenticateToken(authHeader),
                   AuthError(authenticateToken(authHeader)))
                 EXCEPT !.header = authHeader, !.body = body]
    /\ UNCHANGED <<db, reqs>>

\* the answer of a handler whose statement raised an error
Failed(r, step, error) ==
    /\ Finish(r)
    /\ out' = [Out(r.op, step, 500, error)
                 EXCEPT !.userId = r.userId, !.body = r.body]

\* POST /api/tracking/books: the guard, then the SELECT of the book by its
\* external id
TrackBookRequest(authHeader, body) ==
    /\ started' = started + 1
    /\ UNCHANGED <<answers, searchvars>>
    /\ \/ Rejected("track_book", authHeader, body)
       \/ /\ authenticateToken(authHeader) = 0
          /\ UNCHANGED db
          /\ LET userId == ReqUser(authHeader).userId
                 bookResult == SelectBookByGoogleId(db, body.googleBooksId)
                 bookId == IF bookResult = {} THEN NULL
                           ELSE (CHOOSE b \in bookResult : TRUE).id
             IN  /\ reqs' = reqs (+) SetToBag({
                       [Req("track_book",
                            IF bookResult = {} THEN "insert_book" ELSE "track",
                            userId, body)
                          EXCEPT !.bookId = bookId,
                                 !.found = bookResult # {}]})
                 /\ out' = [Out("track_book", "select", 0, "")
                              EXCEPT !.header = authHeader, !.userId = userId,
                                     !.body = body, !.id = bookId]

\* INSERT INTO books
TrackBookInsert(r) ==
    /\ At(r, "track_book", "insert_book")
    /\ UNCHANGED <<started, answers, searchvars>>
    /\ LET res == InsertBook(db, r.body.googleBooksId, r.body.releaseDate)
       IN  /\ db' = res.db
           /\ IF ~res.ok
              THEN Failed(r, "insert_book", "Failed to track book")
              ELSE /\ Continue(r, [r EXCEPT
                         !.bookId = res.id,
                         !.pc = IF Len(r.body.authors) > 0
                                THEN "upsert_author"
                                ELSE AfterAuthors(r.body)])
                   /\ out' = [Out("track_book", "insert_book", 0, "")
                                EXCEPT !.userId = r.userId, !.body = r.body,
                                       !.id = res.id]

\* the author loop: create or get the author authors[i]
TrackBookUpsertAuthor(r) ==
    /\ At(r, "track_book", "upsert_author")
    /\ UNCHANGED <<started, answers, searchvars>>
    /\ LET res == UpsertAuthor(db, r.body.authors[r.i + 1])
       IN  /\ db' = res.db
           /\ Continue(r, [r EXCEPT !.authorId = res.id, !.pc = "link"])
           /\ out' = [Out("track_book", "upsert_author", 0, "")
                        EXCEPT !.userId = r.userId, !.body = r.body,
                               !.id = res.id]

\* the author loop: link the book to the author with author_order i + 1
TrackBookLink(r) ==
    /\ At(r, "track_book", "link")
    /\ UNCHANGED <<started, answers, searchvars>>
    /\ LET res == InsertBookAuthor(db, r.bookId, r.authorId, r.i + 1)
       IN  /\ db' = res.db
           /\ IF ~res.ok
              THEN Failed(r, "link", "Failed to track book")
              ELSE /\ Continue(r, [r EXCEPT
                         !.i = @ + 1,
                         !.pc = IF r.i + 1 < Len(r.body.authors)
                                THEN "upsert_author"
                                ELSE AfterAuthors(r.body)])
                   /\ out' = [Out("track_book", "link", 0, "")
                                EXCEPT !.userId = r.userId, !.body = r.body,
                                       !.id = r.authorId]

\* create or get the series
TrackBookUpsertSeries(r) ==
    /\ At(r, "track_book", "upsert_series")
    /\ UNCHANGED <<started, answers, searchvars>>
    /\ LET res == UpsertSeries(db, r.body.series)
       IN  /\ db' = res.db
           /\ Continue(r, [r EXCEPT !.seriesId = res.id, !.pc = "update"])
           /\ out' = [Out("track_book", "upsert_series", 0, "")
                        EXCEPT !.userId = r.userId, !.body = r.body,
                               !.id = res.id]

\* UPDATE books SET series_id
TrackBookUpdate(r) ==
    /\ At(r, "track_book", "update")
    /\ UNCHANGED <<started, answers, searchvars>>
    /\ LET res == UpdateBookSeries(db, r.seriesId, r.bookId)
       IN  /\ db' = res.db
           /\ IF ~res.ok
              THEN Failed(r, "update", "Failed to track book")
              ELSE /\ Continue(r, [r EXCEPT !.pc = "track"])
                   /\ out' = [Out("track_book", "update", 0, "")
                                EXCEPT !.userId = r.userId, !.body = r.body,
                                       !.id = r.seriesId]

\* track the book for the user and answer
TrackBookTrack(r) ==
    /\ At(r, "track_book", "track")
    /\ UNCHANGED <<started, answers, searchvars>>
    /\ LET res == InsertTrackedBook(db, r.userId, r.bookId)
       IN  /\ db' = res.db
           /\ IF ~res.ok
              THEN Failed(r, "track", "Failed to track book")
              ELSE /\ Finish(r)
                   /\ out' = [Out("track_book", "track", 200,
                                  "Book tracked successfully")
                                EXCEPT !.userId = r.userId, !.body = r.body,
                                       !.id = r.bookId]

\* POST /api/tracking/authors: the guard, then create or get the author
TrackAuthorRequest(authHeader, body) ==
    /\ started' = started + 1
    /\ UNCHANGED <<answers, searchvars>>
    /\ \/ Rejected("track_author", authHeader, body)
       \/ /\ authenticateToken(authHeader) = 0
          /\ LET userId == ReqUser(authHeader).userId
                 res == UpsertAuthor(db, body.authorName)
             IN  /\ db' = res.db
                 /\ reqs' = reqs (+) SetToBag({
                       [Req("track_author", "track", userId, body)
                          EXCEPT !.authorId = res.id]})
                 /\ out' = [Out("track_author", "upsert_author", 0, "")
                              EXCEPT !.header = authHeader, !.userId = userId,
                                     !.body = body, !.id = res.id]

\* track the author for the user and answer
TrackAuthorTrack(r) ==
    /\ At(r, "track_author", "track")
    /\ UNCHANGED <<started, answers, searchvars>>
    /\ LET res == InsertTrackedAuthor(db, r.userId, r.authorId)
       IN  /\ db' = res.db
           /\ IF ~res.ok
              THEN Failed(r, "track", "Failed to track author")
              ELSE /\ Finish(r)
                   /\ out' = [Out("track_author", "track", 200,
                                  "Author tracked successfully")
                                EXCEPT !.userId = r.userId, !.body = r.body,
                                       !.id = r.authorId]

\* DELETE /api/tracking/books/:bookId
UntrackBook(authHeader, body) ==
    /\ UNCHANGED <<started, answers, searchvars>>
    /\ \/ Rejected("untrack_book", authHeader, body)
       \/ /\ authenticateToken(authHeader) = 0
          /\ db' = DeleteTrackedBook(db, ReqUser(authHeader).userId, body.id)
          /\ UNCHANGED reqs
          /\ out' = [Out("untrack_book", "delete", 200, "Book untracked")
                       EXCEPT !.header = authHeader,
                              !.userId = ReqUser(authHeader).userId,
                              !.body = body, !.id = body.id,
                              !.affected = RowCount(db) - RowCount(db')]

\* DELETE /api/tracking/authors/:authorId
UntrackAuthor(authHeader, body) ==
    /\ UNCHANGED <<started, answers, searchvars>>
    /\ \/ Rejected("untrack_author", authHeader, body)
       \/ /\ authenticateToken(authHeader) = 0
          /\ db' = DeleteTrackedAuthor(db, ReqUser(authHeader).userId, body.id)
          /\ UNCHANGED reqs
          /\ out' = [Out("untrack_author", "delete", 200, "Author untracked")
                       EXCEPT !.header = authHeader,
                              !.userId = ReqUser(authHeader).userId,
                              !.body = body, !.id = body.id,
                              !.affected = RowCount(db) - RowCount(db')]

\* GET /api/calendar/:year
Calendar(authHeader, body) ==
    /\ UNCHANGED <<started, answers, searchvars>>
    /\ \/ Rejected("calendar", authHeader, body)
       \/ /\ authenticateToken(authHeader) = 0
          /\ UNCHANGED <<db, reqs>>
          /\ \E releases \in QueryResults(CalendarQuery(
                                  db, ReqUser(authHeader).userId, body.year)) :
                out' = [Out("calendar", "select", 200, "")
                          EXCEPT !.header = authHeader,
                                 !.userId = ReqUser(authHeader).userId,
                                 !.body = body,
                                 !.rows = releases]

\* GET /api/tracking/all: the guard, then the query of the tracked books
TrackingAllRequest(authHeader) ==
    /\ UNCHANGED <<started, answers, searchvars>>
    /\ \/ Rejected("tracking_all", authHeader, NoBody)
       \/ /\ authenticateToken(authHeader) = 0
          /\ UNCHANGED db
          /\ LET userId == ReqUser(authHeader).userId
             IN  \E books \in QueryResults(TrackedBooksQuery(db, userId)) :
                    /\ reqs' = reqs (+) SetToBag({
                          [Req("tracking_all", "authors", userId, NoBody)
                             EXCEPT !.books = books]})
                    /\ out' = [Out("tracking_all", "select_books", 0, "")
                                 EXCEPT !.header = authHeader,
                                        !.userId = userId, !.rows = books]

\* the query of the tracked authors
TrackingAllAuthors(r) ==
    /\ At(r, "tracking_all", "authors")
    /\ UNCHANGED <<db, started, answers, searchvars>>
    /\ Continue(r, [r EXCEPT !.authors = TrackedAuthorsQuery(db, r.userId),
                             !.pc = "series"])
    /\ out' = [Out("tracking_all", "select_authors", 0, "")
                 EXCEPT !.userId = r.userId,
                        !.authors = TrackedAuthorsQuery(db, r.userId)]

\* the query of the tracked series, and the answer
TrackingAllSeries(r) ==
    /\ At(r, "tracking_all", "series")
    /\ UNCHANGED <<db, started, answers, searchvars>>
    /\ Finish(r)
    /\ out' = [Out("tracking_all", "select_series", 200, "")
                 EXCEPT !.userId = r.userId, !.rows = r.books,
                        !.authors = r.authors,
                        !.series = TrackedSeriesQuery(db, r.userId)]

----------------------------------------------------------------------------
(* startServer and runMigrations (src/database/migrate.js).  A run suspends
   at every `await db.query`; i counts the statements it has run after the
   check. *)

\* startServer: runMigrations up to its first statement, the check for the
\* users table; when the table exists the run returns and the server starts
\* to listen
StartServer ==
    /\ reqs = EmptyBag
    /\ started' = started + 1
    /\ UNCHANGED <<db, answers, searchvars>>
    /\ IF TableExists(db, "users")
       THEN /\ UNCHANGED reqs
            /\ out' = Out("migrate", "skipped", 0, "")
       ELSE /\ reqs' = SetToBag({Req("migrate", "create", NULL, NoBody)})
            /\ out' = Out("migrate", "check", 0, "")

\* the next CREATE statement of the run; after the last one runMigrations
\* returns and the server starts to listen
MigrateCreate(r) ==
    /\ At(r, "migrate", "create")
    /\ UNCHANGED <<started, answers, searchvars>>
    /\ LET res == MigrationStatement(db, r.i + 1)
       IN  /\ db' = res.db
           /\ IF ~res.ok
              THEN /\ Finish(r)
                   /\ out' = Out("migrate", "failed", 0, "Migration failed")
              ELSE IF r.i + 1 = MigrationLength
              THEN /\ Finish(r)
                   /\ out' = [Out("migrate", "completed", 0, "")
                                EXCEPT !.id = r.i + 1]
              ELSE /\ Continue(r, [r EXCEPT !.i = @ + 1])
                   /\ out' = [Out("migrate", "create", 0, "")
                                EXCEPT !.id = r.i + 1]

\* the run ends before its next statement takes effect: the connection to
\* the database fails, so that db.query rejects, runMigrations rethrows and
\* startServer exits, or the process is stopped.  The statements run one by
\* one outside a transaction: what was created stays.
MigrateAborted(r) ==
    /\ At(r, "migrate", "create")
    /\ UNCHANGED <<db, started, answers, searchvars>>
    /\ Finish(r)
    /\ out' = [Out("migrate", "failed", 0, "Migration failed")
                 EXCEPT !.id = r.i]

----------------------------------------------------------------------------
(* Statements sent to the database directly, under the schema's rules *)

SqlDeleteUser(id) ==
    /\ HasId(db.users, id)
    /\ db' = DeleteUser(db, id)
    /\ out' = [Out("sql", "delete_user", 0, "")
                 EXCEPT !.id = id, !.affected = RowCount(db) - RowCount(db')]
    /\ UNCHANGED <<reqs, started, answers, searchvars>>

SqlDeleteBook(id) ==
    /\ HasId(db.books, id)
    /\ db' = DeleteBook(db, id)
    /\ out' = [Out("sql", "delete_book", 0, "")
                 EXCEPT !.id = id, !.affected = RowCount(db) - RowCount(db')]
    /\ UNCHANGED <<reqs, started, answers, searchvars>>

SqlDeleteAuthor(id) ==
    /\ HasId(db.authors, id)
    /\ db' = DeleteAuthor(db, id)
    /\ out' = [Out("sql", "delete_author", 0, "")
                 EXCEPT !.id = id, !.affected = RowCount(db) - RowCount(db')]
    /\ UNCHANGED <<reqs, started, answers, searchvars>>

SqlDeleteSeries(id) ==
    /\ HasId(db.series, id)
    /\ db' = DeleteSeries(db, id)
    /\ out' = [Out("sql", "delete_series", 0, "")
                 EXCEPT !.id = id,
                        !.affected = RowCount(db) - RowCount(db')
                            + Cardinality({b \in db.books :
                                              b.series_id = id})]
    /\ UNCHANGED <<reqs, started, answers, searchvars>>

SqlInsertTrackedSeries(userId, seriesId) ==
    /\ InsertTrackedSeries(db, userId, seriesId).ok
    /\ db' = InsertTrackedSeries(db, userId, seriesId).db
    /\ out' = [Out("sql", "insert_tracked_series", 0, "")
                 EXCEPT !.userId = userId, !.id = seriesId]
    /\ UNCHANGED <<reqs, started, answers, searchvars>>

----------------------------------------------------------------------------
(* Cache scenarios: one identity, a few limited requests, the clock moving in
   halves of the cache's time-to-live. *)
Next ==
    \/ \E ip \in CacheClients, q \in Queries, mr \in MaxResultsIn,
          si \in StartIndexIn :
          /\ store[ip].totalHits < MaxSearches
          /\ SearchRequest(ip, q, mr, si)
    \/ \E ip \in CacheClients, id \in BookIds : BookRequest(ip, id)
    \/ \E r \in BagToSet(inflight), o \in Outcomes :
          \E p \in PayloadsOf(o) : FetchReturns(r, o, p)
    \/ Sweep
    \/ Tick(CACHE_TTL \div 2)

Spec == Init /\ [][Next]_vars

----------------------------------------------------------------------------
(* Paging scenarios: one identity searching with and without pagination
   parameters; the clock moves by the cache's time-to-live, so that an entry
   is stored a second time. *)
NextPaging ==
    \/ \E ip \in CacheClients, q \in Queries, mr \in MaxResultsIn,
          si \in StartIndexIn :
          /\ store[ip].totalHits < MaxPaged
          /\ SearchRequest(ip, q, mr, si)
    \/ \E r \in BagToSet(inflight), o \in Outcomes :
          \E p \in PayloadsOf(o) : FetchReturns(r, o, p)
    \/ (ticks < MaxExpiries /\ Tick(CACHE_TTL))

SpecPaging == Init /\ [][NextPaging]_vars

----------------------------------------------------------------------------
(* Limiter scenarios: the first identity may run past the limit, the second
   sends a few requests; the clock moves in halves of the 24-hour window. *)
LimitBudget(ip) == IF ip = "ip1" THEN max + MaxOver ELSE MaxOther

NextLimit ==
    \/ \E ip \in Clients :
          /\ store[ip].totalHits < LimitBudget(ip)
          /\ SearchRequest(ip, Absent, Absent, Absent)
    \/ \E ip \in Clients :
          /\ store[ip].totalHits < LimitBudget(ip)
          /\ store[ip].totalHits - win[ip].n < MaxStatus
          /\ StatusRequest(ip)
    \/ (ticks < MaxHalfDays /\ Tick(Day \div 2))

SpecLimit == Init /\ [][NextLimit]_vars

----------------------------------------------------------------------------
(* One identity searching until it is past the limit, with the cache and the
   upstream calls in play. *)
NextBusy ==
    \/ \E q \in {" ", "q1"} :
          /\ store["ip1"].totalHits < max + MaxOver
          /\ SearchRequest("ip1", q, Absent, Absent)
    \/ \E r \in BagToSet(inflight), o \in Outcomes :
          \E p \in PayloadsOf(o) : FetchReturns(r, o, p)
    \/ Sweep
    \/ Tick(CACHE_TTL \div 2)

SpecBusy == Init /\ [][NextBusy]_vars

----------------------------------------------------------------------------
(* Two identities searching for the same thing, with the upstream calls in
   play: a request of one arrives while a request of the other is suspended
   on its fetch. *)
NextOverlap ==
    \/ \E ip \in Clients, q \in {" ", "q1"} :
          /\ store[ip].totalHits < MaxSearches
          /\ SearchRequest(ip, q, Absent, Absent)
    \/ \E r \in BagToSet(inflight), o \in Outcomes :
          \E p \in PayloadsOf(o) : FetchReturns(r, o, p)
    \/ Tick(CACHE_TTL \div 2)

SpecOverlap == Init /\ [][NextOverlap]_vars

----------------------------------------------------------------------------
(* Inputs of the data side *)

Email(local, domain) == <<local, domain>>

RegisterBody(email, password, name) ==
    [NoBody EXCEPT !.email = email, !.password = password, !.name = name]

\* two spellings of one address, with different passwords and names; a
\* second address; a string that is no address; a password that is too short
RegisterBodies ==
    {RegisterBody(Email("a", "x.io"), "pw1234", "n1"),
     RegisterBody(Email("A", "x.io"), "pw5678", " "),
     RegisterBody(Email("b", "x.io"), "pw1234", "n2"),
     RegisterBody(<<"nomail">>, "pw1234", "n1"),
     RegisterBody(Email("a", "x.io"), "short", "n1")}

LoginBody(email, password) ==
    [NoBody EXCEPT !.email = email, !.password = password]

LoginBodies ==
    {LoginBody(Email("a", "x.io"), "pw1234"),
     LoginBody(Email("A", "x.io"), "pw5678"),
     LoginBody(Email("b", "x.io"), "pw1234"),
     LoginBody(<<"nomail">>, "pw1234")}

\* the users the tracking scenarios start with, as two registrations leave
\* them
SeededUsers ==
    {[id |-> 1, email |-> Email("a", "x.io"),
      password_hash |-> hashPassword("pw1234"), name |-> "n1"],
     [id |-> 2, email |-> Email("b", "x.io"),
      password_hash |-> hashPassword("pw1234"), name |-> "n2"]}

SeededDb == [EmptyDb EXCEPT !.users = SeededUsers, !.seq.users = 2]

\* Authorization headers: `Bearer <token>` with a token the server issued
Bearer(token) == <<"Bearer", token>>

TokenOf(userId) ==
    [kind |-> "jwt", userId |-> userId,
     email |-> (CHOOSE u \in SeededUsers : u.id = userId).email,
     sig |-> JWT_SECRET, exp |-> 30 * 24 * 60 * 60]

ValidHeaders == {Bearer(TokenOf(1)), Bearer(TokenOf(2))}

\* no header, a header without a token, and tokens that are expired, signed
\* with another key, or no token at all
InvalidHeaders ==
    {<< >>,
     <<"Bearer">>,
     Bearer([TokenOf(1) EXCEPT !.exp = 0]),
     Bearer([TokenOf(1) EXCEPT !.sig = "forged"]),
     Bearer([NoToken EXCEPT !.kind = "garbage"])}

Headers == ValidHeaders \cup InvalidHeaders

TrackBookBody(googleBooksId, authors, releaseDate, series) ==
    [NoBody EXCEPT !.googleBooksId = googleBooksId, !.authors = authors,
                   !.releaseDate = releaseDate, !.series = series]

TrackBookBodies ==
    {TrackBookBody("g1", <<"a1", "a2">>, <<2025, 6, 1>>, "s1"),
     TrackBookBody("g1", << >>, <<2026, 1, 15>>, "Standalone"),
     TrackBookBody("g2", <<"a2", "a1">>, <<2026, 1, 15>>, "s1"),
     TrackBookBody("g2", <<"a1", "a1">>, NullDate, Absent)}

TrackAuthorBodies ==
    {[NoBody EXCEPT !.authorName = n] : n \in {"a1", "a2"}}

\* :bookId and :authorId of the untrack routes
IdBodies == {[NoBody EXCEPT !.id = id] : id \in 1..2}

\* :year of the calendar route
YearBodies == {[NoBody EXCEPT !.year = y] : y \in {2025, 2026}}

\* the one request per route of the guard scenarios
GuardBookBody == TrackBookBody("g1", <<"a1">>, NullDate, Absent)

GuardAuthorBody == [NoBody EXCEPT !.authorName = "a1"]

GuardIdBody == [NoBody EXCEPT !.id = 1]

GuardYearBody == [NoBody EXCEPT !.year = 2025]

\* the book of the scenarios with deletes
DeleteBookBody == TrackBookBody("g1", <<"a1">>, NullDate, "s1")

----------------------------------------------------------------------------
(* Account scenarios: registrations and logins on an empty database. *)
NextAuth ==
    \/ \E body \in RegisterBodies :
          /\ started < MaxRegistrations
          /\ BagCardinality(reqs) < MaxActive
          /\ RegisterRequest(body)
    \/ \E r \in BagToSet(reqs) : RegisterInsert(r)
    \/ \E body \in LoginBodies :
          /\ BagCardinality(reqs) < MaxActive
          /\ LoginRequest(body)
    \/ \E r \in BagToSet(reqs) : LoginCompare(r)

SpecAuth == Init /\ [][NextAuth]_vars

----------------------------------------------------------------------------
(* Tracking scenarios: two registered users track books and authors, their
   handlers overlapping. *)
InitTracking ==
    /\ now = 0
    /\ ticks = 0
    /\ store = [c \in Clients |-> NoClient]
    /\ cache = << >>
    /\ inflight = EmptyBag
    /\ resp = Event("init", "")
    /\ win = [c \in Clients |-> NoWindow]
    /\ seen = [c \in Clients |-> NoWindow]
    /\ lastStore = << >>
    /\ db = SeededDb
    /\ reqs = EmptyBag
    /\ out = Out("init", "", 0, "")
    /\ started = 0
    /\ answers = EmptyBag

\* the statements of the handlers suspended between two of them
HandlerStep(r) ==
    \/ TrackBookInsert(r)
    \/ TrackBookUpsertAuthor(r)
    \/ TrackBookLink(r)
    \/ TrackBookUpsertSeries(r)
    \/ TrackBookUpdate(r)
    \/ TrackBookTrack(r)
    \/ TrackAuthorTrack(r)

NextTracking ==
    \/ \E h \in ValidHeaders, body \in TrackBookBodies :
          /\ started < MaxTracking
          /\ BagCardinality(reqs) < MaxActive
          /\ TrackBookRequest(h, body)
    \/ \E h \in ValidHeaders, body \in TrackAuthorBodies :
          /\ started < MaxTracking
          /\ BagCardinality(reqs) < MaxActive
          /\ TrackAuthorRequest(h, body)
    \/ \E r \in BagToSet(reqs) : HandlerStep(r)

SpecTracking == InitTracking /\ [][NextTracking]_vars

----------------------------------------------------------------------------
(* Reading scenarios: the two users track, one handler at a time, and untrack
   and read their calendars at any point in between its statements. *)
NextReading ==
    \/ \E h \in ValidHeaders, body \in TrackBookBodies :
          /\ started < MaxTracked
          /\ reqs = EmptyBag
          /\ TrackBookRequest(h, body)
    \/ \E h \in ValidHeaders, body \in TrackAuthorBodies :
          /\ started < MaxTracked
          /\ reqs = EmptyBag
          /\ TrackAuthorRequest(h, body)
    \/ \E r \in BagToSet(reqs) : HandlerStep(r)
    \/ \E h \in ValidHeaders, body \in IdBodies : UntrackBook(h, body)
    \/ \E h \in ValidHeaders, body \in IdBodies : UntrackAuthor(h, body)
    \/ \E h \in ValidHeaders, body \in YearBodies : Calendar(h, body)

SpecReading == InitTracking /\ [][NextReading]_vars

----------------------------------------------------------------------------
(* Listing scenarios: the first user tracks a book of two authors already;
   the two users track, list their tracked items, untrack and read their
   calendars, one handler that writes at a time. *)

\* the database after the first user's request to track g1 by a1 and a2 of
\* the series s1
ListingDb ==
    LET book == InsertBook(SeededDb, "g1", <<2025, 6, 1>>)
        a1 == UpsertAuthor(book.db, "a1")
        l1 == InsertBookAuthor(a1.db, book.id, a1.id, 1)
        a2 == UpsertAuthor(l1.db, "a2")
        l2 == InsertBookAuthor(a2.db, book.id, a2.id, 2)
        s1 == UpsertSeries(l2.db, "s1")
        upd == UpdateBookSeries(s1.db, s1.id, book.id)
    IN  InsertTrackedBook(upd.db, 1, book.id).db

InitListing ==
    /\ now = 0
    /\ ticks = 0
    /\ store = [c \in Clients |-> NoClient]
    /\ cache = << >>
    /\ inflight = EmptyBag
    /\ resp = Event("init", "")
    /\ win = [c \in Clients |-> NoWindow]
    /\ seen = [c \in Clients |-> NoWindow]
    /\ lastStore = << >>
    /\ db = ListingDb
    /\ reqs = EmptyBag
    /\ out = Out("init", "", 0, "")
    /\ started = 0
    /\ answers = EmptyBag

NextListing ==
    \/ \E h \in ValidHeaders, body \in TrackBookBodies :
          /\ started < MaxListed
          /\ reqs = EmptyBag
          /\ TrackBookRequest(h, body)
    \/ \E h \in ValidHeaders, body \in TrackAuthorBodies :
          /\ started < MaxListed
          /\ reqs = EmptyBag
          /\ TrackAuthorRequest(h, body)
    \/ \E r \in BagToSet(reqs) : HandlerStep(r)
    \/ \E h \in ValidHeaders, body \in IdBodies : UntrackBook(h, body)
    \/ \E h \in ValidHeaders, body \in IdBodies : UntrackAuthor(h, body)
    \/ \E h \in ValidHeaders, body \in YearBodies : Calendar(h, body)
    \/ \E h \in ValidHeaders : (reqs = EmptyBag /\ TrackingAllRequest(h))
    \/ \E r \in BagToSet(reqs) : TrackingAllAuthors(r)
    \/ \E r \in BagToSet(reqs) : TrackingAllSeries(r)

SpecListing == InitListing /\ [][NextListing]_vars

----------------------------------------------------------------------------
(* Start-up scenarios: the server is started on a database in which nothing
   has been created yet, and started again after a run of the migration has
   ended, whichever way it ended. *)
InitMigrate ==
    /\ now = 0
    /\ ticks = 0
    /\ store = [c \in Clients |-> NoClient]
    /\ cache = << >>
    /\ inflight = EmptyBag
    /\ resp = Event("init", "")
    /\ win = [c \in Clients |-> NoWindow]
    /\ seen = [c \in Clients |-> NoWindow]
    /\ lastStore = << >>
    /\ db = [EmptyDb EXCEPT !.schema = NoSchema]
    /\ reqs = EmptyBag
    /\ out = Out("init", "", 0, "")
    /\ started = 0
    /\ answers = EmptyBag

NextMigrate ==
    \/ (started < MaxRuns /\ StartServer)
    \/ \E r \in BagToSet(reqs) : MigrateCreate(r)
    \/ \E r \in BagToSet(reqs) : MigrateAborted(r)

SpecMigrate == InitMigrate /\ [][NextMigrate]_vars

----------------------------------------------------------------------------
(* Guard scenarios: every kind of Authorization header on every route behind
   authenticateToken. *)
NextGuard ==
    \/ \E h \in Headers :
          /\ started < MaxGuarded
          /\ TrackBookRequest(h, GuardBookBody)
    \/ \E h \in Headers :
          /\ started < MaxGuarded
          /\ TrackAuthorRequest(h, GuardAuthorBody)
    \/ \E r \in BagToSet(reqs) : HandlerStep(r)
    \/ \E h \in Headers : UntrackBook(h, GuardIdBody)
    \/ \E h \in Headers : UntrackAuthor(h, GuardIdBody)
    \/ \E h \in Headers : Calendar(h, GuardYearBody)

SpecGuard == InitTracking /\ [][NextGuard]_vars

----------------------------------------------------------------------------
(* Scenarios with deletes: rows are deleted, and tracked-series rows
   inserted, while a tracking request is under way. *)
NextDelete ==
    \/ \E h \in ValidHeaders :
          /\ started < MaxBeforeDelete
          /\ reqs = EmptyBag
          /\ TrackBookRequest(h, DeleteBookBody)
    \/ \E h \in ValidHeaders :
          /\ started < MaxBeforeDelete
          /\ reqs = EmptyBag
          /\ TrackAuthorRequest(h, GuardAuthorBody)
    \/ \E r \in BagToSet(reqs) : HandlerStep(r)
    \/ \E id \in 1..2 : SqlDeleteUser(id)
    \/ \E id \in 1..2 : SqlDeleteBook(id)
    \/ \E id \in 1..2 : SqlDeleteAuthor(id)
    \/ \E id \in 1..2 : SqlDeleteSeries(id)
    \/ \E userId \in 1..2, seriesId \in 1..2 :
          SqlInsertTrackedSeries(userId, seriesId)

SpecDelete == InitTracking /\ [][NextDelete]_vars

----------------------------------------------------------------------------
(* Steps, as the claims speak of them *)

\* ip sends some search request
SearchStep(ip) ==
    \E q \in Queries, mr \in MaxResultsIn, si \in StartIndexIn :
        SearchRequest(ip, q, mr, si)

\* ip sends a request to a route behind the limiter
LimitedStep(ip) == SearchStep(ip) \/ StatusRequest(ip)

----------------------------------------------------------------------------
(* C1: of the search requests an identity sends in one 24-hour window, opened
   by its first search request, the first 50 are passed to the handler and
   every later one is answered 429.  The status endpoint shares the limiter
   (C5), so an identity that also asks for its status is cut off earlier. *)
C1_First50SearchesPass ==
    [][\A ip \in Clients :
          SearchStep(ip) => ((win'[ip].n <= max) <=> (resp'.status # 429))]_vars

(* C5: a status request leaves the caller's request count as it was. *)
C5_StatusConsumesNoSlot ==
    [][\A ip \in Clients :
          StatusRequest(ip) => store'[ip].totalHits = store[ip].totalHits]_vars

(* C2: a search the limiter rejects is answered 429 and leaves the cache and
   the set of outstanding upstream calls exactly as they were. *)
C2_RejectedSearchTouchesNothing ==
    [][\A ip \in Clients :
          (SearchStep(ip) /\ limited(ip)) =>
              /\ resp'.status = 429
              /\ cache' = cache
              /\ inflight' = inflight]_vars

\* a search has just been rejected while the cache holds an expired entry,
\* which a lookup would have evicted
C2_Witness ==
    /\ resp.op = "search"
    /\ resp.status = 429
    /\ \E u \in DOMAIN cache : now - cache[u].timestamp >= CACHE_TTL

(* C3: the limiter accounts per identity: a request of one identity leaves
   the count and the window end of every other identity as they were, the
   window of an identity ends 24 hours after its own first request of that
   window, and a request is rejected exactly when it is the identity's own
   51st or later request of its window. *)
C3_PerIdentityAccounting ==
    [][\A a \in Clients :
          LimitedStep(a) =>
              /\ \A b \in Clients \ {a} : store'[b] = store[b]
              /\ store'[a].resetTime = seen'[a].start + Day
              /\ (resp'.status = 429) <=> (seen'[a].n > max)]_vars

\* the first identity has just been rejected while the second is inside a
\* window of its own that started at another time
C3_Witness ==
    /\ resp.ip = "ip1"
    /\ resp.status = 429
    /\ seen["ip2"].n > 0
    /\ seen["ip2"].start # seen["ip1"].start
    /\ store["ip2"].resetTime # store["ip1"].resetTime

(* C4: a request sent 24 hours or more after the first request of the
   identity's window is accepted and opens a new window with a count of one,
   also after rejections; before that a count above 50 does not drop. *)
C4_WindowReset ==
    [][\A ip \in Clients :
          /\ (LimitedStep(ip) /\ seen[ip].n > 0
                /\ now >= seen[ip].start + Day) =>
                 /\ resp'.status # 429
                 /\ store'[ip] = [totalHits |-> 1, resetTime |-> now + Day]
          /\ (store[ip].totalHits > max /\ seen[ip].n > 0
                /\ now' < seen[ip].start + Day) =>
                 store'[ip].totalHits >= store[ip].totalHits]_vars

\* an identity that ran over the limit in its last window has just had the
\* first request of a new window accepted
C4_Witness ==
    \E ip \in Clients :
        /\ resp.ip = ip
        /\ resp.op \in {"search", "status"}
        /\ resp.status # 429
        /\ seen[ip].over
        /\ seen[ip].n = 1
        /\ store[ip].totalHits = 1

----------------------------------------------------------------------------
(* Cache claims.  lastStore remembers, per requested thing, the value and the
   time of the last store, whatever the cache did with the entry since. *)

Age(k) == now - lastStore[k].timestamp

\* the step issues the upstream call of a request for k
FetchIssued(k) ==
    \E r \in BagToSet(inflight') :
        /\ r.key = k
        /\ CopiesIn(r, inflight') = CopiesIn(r, inflight) + 1
        /\ inflight' = inflight (+) SetToBag({r})

\* what a lookup for k, stored before, has to give ip on the given route
ServedOrRefetched(ip, route, k) ==
    IF Age(k) < CACHE_TTL
    THEN /\ resp' = Reply(route, ip, route, 200, lastStore[k].data)
         /\ inflight' = inflight
    ELSE /\ resp'.status = 0
         /\ FetchIssued(k)

(* C6: an entry stored at time T, with no later store under its key, is
   returned verbatim by every lookup at T+d with d < TTL; a lookup at T+d
   with d >= TTL finds nothing and the request goes on to the upstream call. *)
C6_FreshUntilTtl ==
    [][\A ip \in Clients :
          /\ \A q \in Queries, mr \in MaxResultsIn, si \in StartIndexIn :
                (/\ resp'.op = "search"
                 /\ resp'.ip = ip
                 /\ resp'.status \notin {400, 429}
                 /\ ~QueryMissing(q)
                 /\ SearchKey(q, mr, si) \in DOMAIN lastStore
                 /\ SearchRequest(ip, q, mr, si)) =>
                    ServedOrRefetched(ip, "search", SearchKey(q, mr, si))
          /\ \A id \in BookIds :
                (/\ resp'.op = "book"
                 /\ resp'.ip = ip
                 /\ BookKey(id) \in DOMAIN lastStore
                 /\ BookRequest(ip, id)) =>
                    ServedOrRefetched(ip, "book", BookKey(id))]_vars

\* a lookup has just been served from an entry stored half a TTL ago
C6_Witness ==
    /\ resp.op \in {"search", "book"}
    /\ resp.status = 200
    /\ \E k \in DOMAIN lastStore :
          /\ resp.data = lastStore[k].data
          /\ Age(k) > 0
          /\ Age(k) < CACHE_TTL

\* what a lookup of url may do to the cache
LookupFrame(url) ==
    /\ DOMAIN cache' \subseteq DOMAIN cache
    /\ \A u \in DOMAIN cache \ {url} :
          u \in DOMAIN cache' /\ cache'[u] = cache[u]
    /\ url \in DOMAIN cache =>
          IF now - cache[url].timestamp < CACHE_TTL
          THEN url \in DOMAIN cache' /\ cache'[url] = cache[url]
          ELSE url \notin DOMAIN cache'

(* C7: a lookup adds nothing to the cache and touches no other key; it leaves
   an unexpired entry of its key in place and evicts an expired one. *)
C7_LookupOnlyEvictsExpired ==
    [][\A ip \in Clients :
          /\ \A q \in Queries, mr \in MaxResultsIn, si \in StartIndexIn :
                (/\ resp'.op = "search"
                 /\ resp'.ip = ip
                 /\ resp'.status \notin {400, 429}
                 /\ ~QueryMissing(q)
                 /\ SearchRequest(ip, q, mr, si)) =>
                    LookupFrame(SearchUrl(q, mr, si))
          /\ \A id \in BookIds :
                (resp'.op = "book" /\ resp'.ip = ip /\ BookRequest(ip, id)) =>
                    LookupFrame(BookUrl(id))]_vars

\* a lookup has just evicted an entry of age exactly TTL (which no sweep
\* deletes) and gone on to the upstream call, other entries staying cached
C7_Witness ==
    /\ resp.op \in {"search", "book"}
    /\ resp.status = 0
    /\ DOMAIN cache # {}
    /\ \E r \in BagToSet(inflight) :
          /\ r.key \in DOMAIN lastStore
          /\ r.url \notin DOMAIN cache
          /\ Age(r.key) = CACHE_TTL

(* C8: a sweep deletes every entry older than the TTL and no entry younger
   than it, and adds or changes nothing. *)
C8_SweepEvictsOld ==
    [][resp'.op = "sweep" =>
          /\ DOMAIN cache' \subseteq DOMAIN cache
          /\ \A u \in DOMAIN cache :
                /\ now - cache[u].timestamp > CACHE_TTL => u \notin DOMAIN cache'
                /\ now - cache[u].timestamp < CACHE_TTL =>
                      u \in DOMAIN cache' /\ cache'[u] = cache[u]]_vars

\* a sweep has just deleted entries and kept a young one
C8_Witness ==
    /\ resp.op = "sweep"
    /\ resp.cleaned > 0
    /\ \E u \in DOMAIN cache : now - cache[u].timestamp < CACHE_TTL

(* C9: a search answered from the cache returns the value last stored for
   the same query, maxResults and startIndex, and issues no upstream call. *)
C9_HitReturnsLastStored ==
    [][\A ip \in Clients, q \in Queries, mr \in MaxResultsIn,
          si \in StartIndexIn :
          (resp'.status = 200 /\ resp'.op = "search" /\ resp'.ip = ip
             /\ ~QueryMissing(q) /\ SearchRequest(ip, q, mr, si)) =>
              /\ SearchKey(q, mr, si) \in DOMAIN lastStore
              /\ resp'.data = lastStore[SearchKey(q, mr, si)].data
              /\ inflight' = inflight]_vars

\* a search has just been answered from the cache while another search URL
\* holds a different value
C9_Witness ==
    /\ resp.op = "search"
    /\ resp.status = 200
    /\ \E k1, k2 \in DOMAIN lastStore :
          /\ k1[1] = "search" /\ k2[1] = "search" /\ k1 # k2
          /\ resp.data = lastStore[k1].data
          /\ resp.data # lastStore[k2].data

(* C10: when the upstream call of a search or book-detail request fails, the
   request is answered 500, the call is not repeated and the cache stays as
   it was. *)
C10_FailureNotCached ==
    [][\A r \in BagToSet(inflight), o \in Outcomes \ {"ok"} :
          FetchReturns(r, o, "") =>
              /\ resp' = Reply("fetch", r.ip, r.route, 500, null)
              /\ cache' = cache
              /\ inflight' = inflight (-) SetToBag({r})]_vars

\* an upstream call has just failed and been answered 500 while the cache
\* holds an entry
C10_Witness ==
    /\ resp.op = "fetch"
    /\ resp.status = 500
    /\ DOMAIN cache # {}

----------------------------------------------------------------------------
(* Account claims *)

(* C11: at most one users row exists per email, and a row that exists keeps
   its email, password hash and name whatever registrations follow. *)
C11_EmailUnique ==
    /\ [](\A u, v \in db.users : u.email = v.email => u = v)
    /\ [][\A u \in db.users : u \in db'.users]_vars

\* a registration that overlapped another one for the same email, with
\* another password and name, has just been turned away by the INSERT
C11_Witness ==
    /\ out.op = "register"
    /\ out.step = "insert"
    /\ out.status # 201
    /\ \E u \in db.users :
          /\ u.email = out.body.email
          /\ u.password_hash # hashPassword(out.body.password)
          /\ u.name # NameOrNull(out.body.name)

\* how many valid registrations for email have been answered 201 so far
Created(email) ==
    IF Answer(email, 201, "") \in BagToSet(answers)
    THEN CopiesIn(Answer(email, 201, ""), answers) ELSE 0

(* C12: of the valid registrations carrying one email, overlapping or not,
   exactly one is answered 201 and every other one 400 'Email already
   registered'.  Two overlapping registrations both pass the SELECT; the
   INSERT of the second fails on the UNIQUE constraint and is answered 500. *)
C12_OneCreatedOthersRefused ==
    \A a \in BagToSet(answers) :
        /\ a.status = 201 \/ a = Answer(a.email, 400, "Email already registered")
        /\ Created(a.email) <= 1
        /\ (\A r \in BagToSet(reqs) :
               ~(r.op = "register" /\ r.body.email = a.email))
              => Created(a.email) = 1

(* C18: a login with an email no user has and a login with a user's email
   and another password are both answered 401 'Invalid email or password',
   with no token, and neither changes the database. *)
C18_LoginHidesExistence ==
    [][/\ \A body \in LoginBodies :
             (/\ LoginRequest(body)
              /\ LoginValid(body)
              /\ \A u \in db.users : u.email # normalizeEmail(body.email)) =>
                 /\ out'.status = 401
                 /\ out'.error = "Invalid email or password"
                 /\ out'.token = NoToken
                 /\ db' = db
       /\ \A r \in BagToSet(reqs) :
             (/\ LoginCompare(r)
              /\ r.user.password_hash # hashPassword(r.body.password)) =>
                 /\ out'.status = 401
                 /\ out'.error = "Invalid email or password"
                 /\ out'.token = NoToken
                 /\ db' = db]_vars

\* a login with a registered email and a wrong password has just been
\* answered 401
C18_Witness ==
    /\ out.op = "login"
    /\ out.step = "compare"
    /\ out.status = 401
    /\ \E u \in db.users :
          /\ u.email = out.body.email
          /\ u.password_hash # hashPassword(out.body.password)

----------------------------------------------------------------------------
(* Tracking claims *)

\* after a find-or-create of name that returned id: one row with the name,
\* it has the id, and the rows there were are all still there
FoundOrCreated(before, after, name, id) ==
    /\ {x \in after : x.name = name} = {[id |-> id, name |-> name]}
    /\ before \subseteq after
    /\ after \ before \subseteq {[id |-> id, name |-> name]}

\* the identifiers the suspended handlers hold are those of the rows
HeldIdsResolve ==
    \A r \in BagToSet(reqs) :
        /\ (r.op = "track_book" /\ r.pc = "link") =>
              [id |-> r.authorId, name |-> r.body.authors[r.i + 1]]
                  \in db.authors
        /\ (r.op = "track_author" /\ r.pc = "track") =>
              [id |-> r.authorId, name |-> r.body.authorName] \in db.authors
        /\ (r.op = "track_book" /\ r.pc = "update") =>
              [id |-> r.seriesId, name |-> r.body.series] \in db.series

(* C13: no two author rows and no two series rows share a name; every
   find-or-create, from track-author or track-book, returns the identifier of
   the one row with its name and leaves the other rows alone, so overlapping
   calls with one name all hold the same identifier. *)
C13_FindOrCreate ==
    /\ [](/\ \A x, y \in db.authors : x.name = y.name => x = y
          /\ \A x, y \in db.series : x.name = y.name => x = y
          /\ HeldIdsResolve)
    /\ [][/\ \A r \in BagToSet(reqs) :
                /\ TrackBookUpsertAuthor(r) =>
                      FoundOrCreated(db.authors, db'.authors,
                                     r.body.authors[r.i + 1], out'.id)
                /\ TrackBookUpsertSeries(r) =>
                      FoundOrCreated(db.series, db'.series,
                                     r.body.series, out'.id)
          /\ \A h \in ValidHeaders, body \in TrackAuthorBodies :
                TrackAuthorRequest(h, body) =>
                   FoundOrCreated(db.authors, db'.authors,
                                  body.authorName, out'.id)]_vars

\* a track-author handler and a track-book handler, overlapping, hold the
\* same identifier for the same name, found by one and created by the other
C13_Witness ==
    \E r1, r2 \in BagToSet(reqs) :
        /\ r1.op = "track_author" /\ r1.pc = "track"
        /\ r2.op = "track_book" /\ r2.pc = "link"
        /\ r1.body.authorName = r2.body.authors[r2.i + 1]
        /\ r1.authorId = r2.authorId
        /\ db.seq.authors > Cardinality(db.authors)

\* the book rows with the external id
BooksOf(googleBooksId) ==
    {b \in db.books : b.google_books_id = googleBooksId}

(* C14: every track-book request of a user is answered with success, also
   when it overlaps another one for the same book that does not exist yet,
   and leaves exactly one book row with the external id and exactly one
   tracking row of the user and the book.  Two overlapping requests both miss
   the book in the SELECT; the INSERT of the second fails on the UNIQUE
   constraint and the request is answered 500. *)
C14_TrackingIdempotent ==
    /\ \A b1, b2 \in db.books :
          b1.google_books_id = b2.google_books_id => b1 = b2
    /\ \A t1, t2 \in db.user_tracked_books :
          (t1.user_id = t2.user_id /\ t1.book_id = t2.book_id) => t1 = t2
    /\ (out.op = "track_book" /\ out.status # 0) =>
          /\ out.status = 200
          /\ Cardinality(BooksOf(out.body.googleBooksId)) = 1
          /\ \A b \in BooksOf(out.body.googleBooksId) :
                Cardinality({t \in db.user_tracked_books :
                    t.user_id = out.userId /\ t.book_id = b.id}) = 1

\* what an untrack of the pair has to do to the table of tracking rows
Untracked(table, tracked) ==
    /\ out'.status = 200
    /\ Cardinality(tracked) <= 1
    /\ db' = [db EXCEPT ![table] = @ \ tracked]

(* C15: an untrack is answered with success; it removes the tracking row of
   the caller and the book (or author) when there is one, and changes nothing
   else: no other tracking row, no book, author or link, and nothing at all
   when the pair is not tracked. *)
C15_UntrackFrame ==
    [][\A h \in ValidHeaders, body \in IdBodies :
          /\ UntrackBook(h, body) =>
                Untracked("user_tracked_books",
                          {t \in db.user_tracked_books :
                              t.user_id = h[2].userId /\ t.book_id = body.id})
          /\ UntrackAuthor(h, body) =>
                Untracked("user_tracked_authors",
                          {t \in db.user_tracked_authors :
                              t.user_id = h[2].userId
                              /\ t.author_id = body.id})]_vars

\* a book has just been untracked by one user while the other user still
\* tracks it and its author links are in place
C15_Witness ==
    /\ out.op = "untrack_book"
    /\ out.affected = 1
    /\ \E t \in db.user_tracked_books : t.book_id = out.id
    /\ \E ba \in db.book_authors : ba.book_id = out.id

\* the position of name in the list (its first one)
Position(list, name) ==
    CHOOSE k \in 1..Len(list) :
        list[k] = name /\ \A j \in 1..(k - 1) : list[j] # name

\* the name of the author with the id
AuthorName(d, id) == (CHOOSE a \in d.authors : a.id = id).name

Distinct(list) ==
    \A j, k \in 1..Len(list) : list[j] = list[k] => j = k

(* C16: a link row is created with the 1-based position of its author in the
   request's author list as author_order and is not changed afterwards; when
   a track-book request that created its book from n distinct names
   succeeds, the book has exactly n link rows, the i-th name's with
   author_order i. *)
C16_AuthorOrder ==
    [][/\ db.book_authors \subseteq db'.book_authors
       /\ \A r \in BagToSet(reqs) :
             /\ TrackBookLink(r) =>
                   \A ba \in db'.book_authors \ db.book_authors :
                       /\ ba.book_id = r.bookId
                       /\ ba.author_order >= 1
                       /\ ba.author_order =
                             Position(r.body.authors,
                                      AuthorName(db', ba.author_id))
             /\ (/\ TrackBookTrack(r)
                 /\ out'.status = 200
                 /\ ~r.found
                 /\ Distinct(r.body.authors)) =>
                   {ba \in db'.book_authors : ba.book_id = r.bookId} =
                      {[book_id |-> r.bookId,
                        author_id |->
                           (CHOOSE a \in db'.authors :
                               a.name = r.body.authors[k]).id,
                        author_order |-> k] : k \in 1..Len(r.body.authors)}
      ]_vars

\* a track-book request has just succeeded for a book it created whose first
\* author has the higher identifier
C16_Witness ==
    /\ out.op = "track_book"
    /\ out.status = 200
    /\ Len(out.body.authors) = 2
    /\ \E b1, b2 \in db.book_authors :
          /\ b1.book_id = out.id /\ b2.book_id = out.id
          /\ b1.author_id < b2.author_id
          /\ b1.author_order = 2 /\ b2.author_order = 1

----------------------------------------------------------------------------
(* Guard claim *)

\* the header carries a token that the server signed and that has not
\* expired
PresentsValidToken(h) ==
    /\ Len(h) >= 2
    /\ h[2].kind = "jwt"
    /\ h[2].sig = JWT_SECRET
    /\ h[2].exp > NowSeconds

\* a request with header h to a route behind the guard
GuardedStep(h) ==
    \/ TrackBookRequest(h, GuardBookBody)
    \/ TrackAuthorRequest(h, GuardAuthorBody)
    \/ UntrackBook(h, GuardIdBody)
    \/ UntrackAuthor(h, GuardIdBody)
    \/ Calendar(h, GuardYearBody)

(* C17: a request to a guarded route without a token is answered 401, one
   with a token that is expired, forged or malformed is answered the same
   403, and in both cases no handler starts and the database is untouched;
   with a valid token the handler runs with the user id the token carries. *)
C17_StrictGuard ==
    [][\A h \in Headers :
          GuardedStep(h) =>
             IF Len(h) < 2
             THEN /\ out'.status = 401
                  /\ out'.error = "Access token required"
                  /\ db' = db /\ reqs' = reqs
             ELSE IF ~PresentsValidToken(h)
             THEN /\ out'.status = 403
                  /\ out'.error = "Invalid or expired token"
                  /\ db' = db /\ reqs' = reqs
             ELSE /\ out'.status \notin {401, 403}
                  /\ out'.userId = h[2].userId]_vars

\* an untrack with an expired token of a user has just been answered 403,
\* the tracking row it names still in place
C17_Witness ==
    /\ out.op = "untrack_book"
    /\ out.status = 403
    /\ Len(out.header) = 2
    /\ out.header[2].sig = JWT_SECRET
    /\ \E t \in db.user_tracked_books :
          t.user_id = out.header[2].userId /\ t.book_id = out.body.id

----------------------------------------------------------------------------
(* Calendar claim *)

\* the books user tracks whose release date lies in year
TrackedInYear(user, year) ==
    {b \in db.books :
        /\ \E t \in db.user_tracked_books :
              t.user_id = user /\ t.book_id = b.id
        /\ b.release_date # NullDate
        /\ b.release_date[1] = year}

(* C19: the calendar of year Y for user U has one row for each book that U
   tracks and whose release date lies in Y, and no other row. *)
C19_CalendarExact ==
    (out.op = "calendar" /\ out.status = 200) =>
        /\ {row.id : row \in out.rows} =
              {b.id : b \in TrackedInYear(out.header[2].userId, out.body.year)}
        /\ Cardinality(out.rows) =
              Cardinality(TrackedInYear(out.header[2].userId, out.body.year))

\* a calendar has just returned a book with two authors, while a book with a
\* release date in that year is tracked by the other user only
C19_Witness ==
    /\ out.op = "calendar"
    /\ \E row \in out.rows : Len(row.authors) = 2
    /\ \E b \in db.books :
          /\ b.release_date # NullDate
          /\ b.release_date[1] = out.body.year
          /\ b.id \notin {row.id : row \in out.rows}
          /\ \E t \in db.user_tracked_books : t.book_id = b.id

----------------------------------------------------------------------------
(* Referential integrity *)

\* every tracking and link row refers to rows that exist; a book's series is
\* NULL or exists
ReferencesHold ==
    /\ \A t \in db.user_tracked_books :
          HasId(db.users, t.user_id) /\ HasId(db.books, t.book_id)
    /\ \A t \in db.user_tracked_authors :
          HasId(db.users, t.user_id) /\ HasId(db.authors, t.author_id)
    /\ \A t \in db.user_tracked_series :
          HasId(db.users, t.user_id) /\ HasId(db.series, t.series_id)
    /\ \A ba \in db.book_authors :
          HasId(db.books, ba.book_id) /\ HasId(db.authors, ba.author_id)
    /\ \A b \in db.books :
          b.series_id = NULL \/ HasId(db.series, b.series_id)

(* C20: references hold in every state; deleting a user removes its tracking
   rows and nothing else, deleting a book removes its links and its tracking
   rows, deleting a series keeps its books and sets their series reference
   to NULL. *)
C20_ReferentialIntegrity ==
    /\ []ReferencesHold
    /\ [][\A id \in 1..2 :
             /\ SqlDeleteUser(id) =>
                   /\ \A t \in db'.user_tracked_books
                             \cup db'.user_tracked_authors
                             \cup db'.user_tracked_series : t.user_id # id
                   /\ db'.books = db.books /\ db'.authors = db.authors
                   /\ db'.series = db.series
                   /\ db'.book_authors = db.book_authors
             /\ SqlDeleteBook(id) =>
                   /\ \A ba \in db'.book_authors : ba.book_id # id
                   /\ \A t \in db'.user_tracked_books : t.book_id # id
                   /\ db'.users = db.users /\ db'.authors = db.authors
                   /\ db'.series = db.series
             /\ SqlDeleteSeries(id) =>
                   /\ {b.id : b \in db'.books} = {b.id : b \in db.books}
                   /\ \A b \in db.books :
                         [b EXCEPT !.series_id =
                             IF @ = id THEN NULL ELSE @] \in db'.books
                   /\ db'.users = db.users /\ db'.authors = db.authors
                   /\ db'.book_authors = db.book_authors
                   /\ db'.user_tracked_books = db.user_tracked_books]_vars

\* a user who tracked a book, an author and a series has just been deleted,
\* the book, the author and the series staying
C20_Witness ==
    /\ out.step = "delete_user"
    /\ out.affected = 4
    /\ db.books # {} /\ db.authors # {} /\ db.series # {}

----------------------------------------------------------------------------
(* C21: the search limit resets at one fixed boundary for everybody (midnight
   Pacific time): the windows of all identities end at the same instant,
   whenever each of them sent its first request. *)
C21_GlobalReset ==
    \A a, b \in Clients :
        (store[a].totalHits > 0 /\ store[b].totalHits > 0
            /\ now < store[a].resetTime /\ now < store[b].resetTime) =>
            store[a].resetTime = store[b].resetTime

----------------------------------------------------------------------------
\* the upstream calls outstanding for url
FetchesFor(url) ==
    BagCardinality([r \in {x \in BagToSet(inflight) : x.url = url} |->
                        inflight[r]])

(* C23: searches that overlap and resolve to the same uncached URL cause at
   most one upstream fetch: no URL has two upstream calls outstanding. *)
C23_OneFetchPerUrl ==
    \A r \in BagToSet(inflight) : FetchesFor(r.url) <= 1

----------------------------------------------------------------------------
(* C24: the remaining count the status endpoint reports is 50 minus the
   number of requests the caller has been counted for in its window, for
   every count up to 50: 0 once all 50 slots are used. *)
C24_StatusRemaining ==
    [][\A ip \in Clients :
          (StatusRequest(ip) /\ resp'.status = 200) =>
              resp'.remaining = max - seen'[ip].n]_vars

----------------------------------------------------------------------------
(* C25: the resetTime sent with a 429 is the instant the caller's current
   window ends, 24 hours after the first request of that window, so that all
   rejections within one window report the same resetTime. *)
C25_ResetTimeIsWindowEnd ==
    [][\A ip \in Clients :
          (LimitedStep(ip) /\ resp'.status = 429) =>
              /\ resp'.resetTime = seen'[ip].start + Day
              /\ resp'.resetTime = store'[ip].resetTime]_vars

----------------------------------------------------------------------------
\* the route handler of the search route ran for the request of this step
HandlerRan ==
    \/ resp'.op = "search" /\ resp'.status \in {200, 400}
    \/ inflight' # inflight

(* C27: every request to the search route takes one slot of the caller's
   window before the route handler runs, also one that is answered from the
   cache or refused with 400 for a missing query; the handler therefore runs
   for at most 50 search requests of an identity per window. *)
C27_EverySearchTakesASlot ==
    [][\A ip \in Clients :
          SearchStep(ip) =>
              /\ store'[ip].totalHits =
                     (IF WindowOpen(win[ip]) THEN store[ip].totalHits ELSE 0) + 1
              /\ HandlerRan => store'[ip].totalHits <= max
              /\ ~HandlerRan => resp'.status = 429]_vars

\* the 50th slot of a window has just gone to a search that was answered from
\* the cache
C27_Witness ==
    /\ resp.op = "search"
    /\ resp.status = 200
    /\ resp.data.shape = "search"
    /\ store[resp.ip].totalHits = max
    /\ win[resp.ip].n = max

----------------------------------------------------------------------------
(* C30: the sweep and the lookup agree on when an entry has expired: every
   entry the sweep leaves in the cache is one a lookup at that instant would
   serve, also an entry whose age is exactly the time-to-live. *)
C30_SweepAgreesWithLookup ==
    resp.op = "sweep" =>
        \A u \in DOMAIN cache : getCachedOrFetch(u).ret # null

----------------------------------------------------------------------------
\* the book is linked to an author row of that name
LinkedTo(d, bookId, name) ==
    \E a \in d.authors, ba \in d.book_authors :
        /\ a.name = name
        /\ ba.book_id = bookId
        /\ ba.author_id = a.id

(* C22: once a track-book request that carries the author list a1..an has
   been answered with success, the book is linked to an author row for each
   ai, also when the book row existed before the request. *)
C22_TrackedBookHasItsAuthors ==
    (out.op = "track_book" /\ out.step = "track" /\ out.status = 200) =>
        \A i \in 1..Len(out.body.authors) :
            LinkedTo(db, out.id, out.body.authors[i])

----------------------------------------------------------------------------
\* author_order of the link of the book to the author of that name
OrderOf(d, bookId, name) ==
    (CHOOSE ba \in d.book_authors :
        /\ ba.book_id = bookId
        /\ \E a \in d.authors : a.id = ba.author_id /\ a.name = name).author_order

(* C26: the authors collection that the list of tracked items and the
   calendar return for a book holds the names in the order of author_order,
   the author of position 1 first. *)
C26_AuthorsInAuthorOrder ==
    (out.op \in {"calendar", "tracking_all"} /\ out.step \in {"select",
                                                             "select_books"}) =>
        \A row \in out.rows :
            \A i, j \in 1..Len(row.authors) :
                i < j => OrderOf(db, row.id, row.authors[i])
                            < OrderOf(db, row.id, row.authors[j])

----------------------------------------------------------------------------
\* the tracking rows of the users other than userId
RowsOfOthers(d, userId) ==
    [books |-> {t \in d.user_tracked_books : t.user_id # userId},
     authors |-> {t \in d.user_tracked_authors : t.user_id # userId},
     series |-> {t \in d.user_tracked_series : t.user_id # userId}]

(* C28: tracking is separate per user: a step of a track, untrack, list or
   calendar request made as user U leaves the tracking rows of every other
   user as they were; the books, authors and series its queries select are
   ones U tracks, and the list sent is what the queries of that same request
   selected. *)
C28_TrackingIsolated ==
    [][\A U \in {u.id : u \in db.users} :
          (out'.userId = U /\ out' # out) =>
              /\ RowsOfOthers(db', U) = RowsOfOthers(db, U)
              /\ out'.step \in {"select", "select_books"} =>
                    \A row \in out'.rows :
                        \E t \in db.user_tracked_books :
                            t.user_id = U /\ t.book_id = row.id
              /\ out'.step = "select_authors" =>
                    \A a \in out'.authors :
                        \E t \in db.user_tracked_authors :
                            t.user_id = U /\ t.author_id = a.id
              /\ out'.step = "select_series" =>
                    /\ \A x \in out'.series :
                          \E t \in db.user_tracked_series :
                              t.user_id = U /\ t.series_id = x.id
                    /\ \E r \in BagToSet(reqs) :
                          /\ r.userId = U
                          /\ r.books = out'.rows
                          /\ r.authors = out'.authors]_vars

\* a user has just been sent the list of their tracked items, which holds a
\* book, while another user tracks a book that is not in it
C28_Witness ==
    /\ out.op = "tracking_all"
    /\ out.status = 200
    /\ out.rows # {}
    /\ \E t \in db.user_tracked_books :
          /\ t.user_id # out.userId
          /\ t.book_id \notin {row.id : row \in out.rows}

----------------------------------------------------------------------------
(* C29: whenever runMigrations returns without an error, all nine tables and
   their indexes exist, whatever earlier runs did, also a run that ended
   after it had created only some of the tables; and a run on a complete
   schema changes nothing. *)
C29_MigrationCompletes ==
    /\ [](out.op = "migrate" /\ out.step \in {"completed", "skipped"} =>
             db.schema = FullSchema)
    /\ [][db.schema = FullSchema => db' = db]_vars

====
